---- MODULE Spec2Model ----
(***************************************************************************)
(* A model of the Financial-NewsFeed backend.                              *)
(*                                                                         *)
(*   SpecRL : RateLimiter.execute (app/utils/rate_limiter.py), one call of *)
(*            execute per behaviour, the wrapped operation's outcomes      *)
(*            chosen by the environment.                                   *)
(*   Spec   : Pipeline.run (app/core/pipeline.py) together with its        *)
(*            callers (POST /jobs/run, the CLI) and the store, several     *)
(*            runs one after another.                                      *)
(*   SpecAN : BaseAIProvider.analyze (app/providers/base.py), one call of  *)
(*            analyze per behaviour, the model's responses chosen by the   *)
(*            environment.                                                 *)
(*   SpecCU : Deduplicator.canonicalize_url (app/utils/deduplicator.py)    *)
(*            applied to a url, to its own result and to the url with      *)
(*            tracking parameters added.                                   *)
(*   SpecDD : Deduplicator.deduplicate, stage by stage, on one input list. *)
(*                                                                         *)
(* Times are counted in quarter seconds so that the jitter bounds 0.75     *)
(* and 1.25 of the backoff stay integers.                                  *)
(***************************************************************************)
EXTENDS Integers, Sequences, FiniteSets, TLC

VARIABLES
    \* ---- RateLimiter.execute ----
    rl_pc,          \* position in execute
    api_name,       \* execute's api_name argument
    max_retries,    \* execute's max_retries argument
    attempt,        \* the loop variable of execute
    last_error,     \* execute's local last_error
    wait_time,      \* the duration of the most recent asyncio.sleep (quarter seconds)
    rl_result,      \* what execute returned or raised
    last_call,      \* the outcome of the most recent invocation of func
    acquires,       \* number of acquire() calls of this execute
    invocations,    \* number of invocations of func of this execute
    sleeps,         \* number of asyncio.sleep calls of this execute
    all_retryable,  \* history: every invocation so far failed with a retryable failure
    last_429        \* history: the Retry-After header of the most recent 429 response

rl_vars == <<rl_pc, api_name, max_retries, attempt, last_error, wait_time, rl_result,
             last_call, acquires, invocations, sleeps, all_retryable, last_429>>

VARIABLES
    \* ---- settings (app/config.py), fixed for the life of the process ----
    ai_provider,        \* settings.ai_provider; "none" stands for a registered
                        \* provider whose constructor raises
    outputs,            \* settings.outputs, the enabled channels
    \* ---- the store ----
    pipeline_runs,      \* run id -> PipelineRun row (exists = FALSE: no row)
    news_items,         \* canonical_url -> number of committed NewsItem rows
    analysis_results,   \* canonical_urls with a committed AnalysisResult row
    delivery_logs,      \* the DeliveryLog rows
    \* ---- the unit of work of the analyze stage ----
    sess_news,          \* canonical_url -> number of flushed, uncommitted NewsItem rows
    sess_analysis,      \* canonical_urls with a flushed, uncommitted AnalysisResult
    \* ---- one Pipeline object and its run() ----
    pc,                 \* position in run()
    trigger,            \* who called run_pipeline: "api" or "cli"
    run_id,             \* the run id bound to this run
    runs_started,       \* number of run ids handed out so far
    stats,              \* Pipeline.stats
    raw_items,          \* the collected items, each named by its canonical url
    normalized_items,   \* the items after process()
    idx,                \* the analyze loop's position in normalized_items
    digest_items,       \* the DigestItems built so far
    exc,                \* the exception caught by run()'s except clause
    run_result,         \* what run() gave its caller
    summary_failures,   \* tickers whose generate_ticker_summary raised
    channel_failures,   \* channels whose delivery failed
    collector_failures, \* collectors that raised in _collect_news
    collector_returns,  \* collector -> what its collect() returned to _collect_news
    requests            \* outbound API requests made by this run

pl_vars == <<ai_provider, outputs, pipeline_runs, news_items, analysis_results,
             delivery_logs,
             sess_news, sess_analysis, pc, trigger, run_id, runs_started, stats,
             raw_items, normalized_items, idx, digest_items, exc, run_result,
             summary_failures, channel_failures, collector_failures,
             collector_returns, requests>>

VARIABLES
    \* ---- BaseAIProvider.analyze ----
    an_pc,              \* position in analyze
    pydantic_strict,    \* the installed pydantic-core rejects the hand-made error details
    an_title,           \* news.title
    an_calls,           \* the _call_api calls made so far: prompt and outcome
    an_result           \* what analyze returned or raised

an_vars == <<an_pc, pydantic_strict, an_title, an_calls, an_result>>

VARIABLES
    \* ---- Deduplicator.canonicalize_url ----
    cu_pc,              \* "input" while the urls are chosen, "done" once canonicalized
    cu_url,             \* a url
    cu_tracked,         \* the same url with tracking parameters added to its query
    cu_added,           \* number of tracking parameters added
    cu_out              \* the results of canonicalize_url

cu_vars == <<cu_pc, cu_url, cu_tracked, cu_added, cu_out>>

VARIABLES
    \* ---- Deduplicator.deduplicate ----
    dd_pc,                  \* position in deduplicate
    simhash_available,      \* SIMHASH_AVAILABLE: the simhash package is installed
    simhash_similar,        \* pairs of distinct titles whose SimHash similarity reaches the threshold
    similarity_threshold,   \* self.similarity_threshold, in percent
    dd_input,               \* the items argument
    dd_items,               \* the local items: what the stages so far have kept
    dd_clusters,            \* the local clusters
    dd_merged,              \* history: representative item, removed item and method of each merge
    dd_result               \* the DedupResult returned

dd_vars == <<dd_pc, simhash_available, simhash_similar, similarity_threshold,
             dd_input, dd_items, dd_clusters, dd_merged, dd_result>>

VARIABLES
    \* ---- Normalizer._normalize_item and crud.create_news_item ----
    nz_pc,              \* "input", "normalized", "done" once the row is created
    nz_raw,             \* the RawNewsData
    nz_now,             \* the day datetime.utcnow() gives
    nz_news,            \* the NewsItemCreate
    nz_row              \* the NewsItem row

nz_vars == <<nz_pc, nz_raw, nz_now, nz_news, nz_row>>

VARIABLES
    \* ---- step 4.5 of Pipeline.run: the per-ticker limit ----
    lt_pc,              \* "input", "done" once the limit is applied
    limit_per_ticker,   \* self.limit_per_ticker; 0 is None
    lt_items,           \* normalized_items before the step: the tickers of each item
    lt_kept             \* the positions of the items in normalized_items after the step

lt_vars == <<lt_pc, limit_per_ticker, lt_items, lt_kept>>

VARIABLES
    \* ---- a collector's collect() ----
    co_pc,              \* "gather", "done" once collect returned
    co_collector,       \* "finnhub" or "sec"
    co_tickers,         \* the tickers argument
    co_results,         \* the result of each _collect_ticker task, in order
    co_out              \* the list collect returned

co_vars == <<co_pc, co_collector, co_tickers, co_results, co_out>>

\* The normalizer, the per-ticker limit and the collectors.
st_vars == <<nz_vars, lt_vars, co_vars>>

VARIABLES
    \* ---- a RateLimitedClient and its requests ----
    ua_class,           \* "RateLimitedClient" or its subclass "SECClient"
    ua_config,          \* rate_limiter.get_config(api_name)
    ua_arg,             \* SECClient's user_agent argument
    ua_setting,         \* settings.sec_user_agent
    ua_client,          \* self._client: the headers it was built with, or NoClient
    ua_sent             \* the User-Agent header of each request sent, in order

ua_vars == <<ua_class, ua_config, ua_arg, ua_setting, ua_client, ua_sent>>

VARIABLES
    \* ---- the watchlist API ----
    wl_rows,            \* the watchlist_items table: the committed rows
    wl_before,          \* the table when the last request arrived
    wl_req,             \* the last request
    wl_resp             \* the status code of its response

wl_vars == <<wl_rows, wl_before, wl_req, wl_resp>>

VARIABLES
    \* ---- the thesis given to provider.analyze ----
    th_pc,              \* "input", "done" once the thesis is chosen
    th_watchlist,       \* ticker -> its watchlist entry's thesis
    th_tickers,         \* news_create.tickers
    th_thesis           \* the thesis passed to analyze

th_vars == <<th_pc, th_watchlist, th_tickers, th_thesis>>

VARIABLES
    \* ---- two runs of _analyze_and_save at the same time ----
    cc_items,           \* run -> its normalized_items, each named by its canonical url
    cc_idx,             \* run -> the loop's position
    cc_pc,              \* run -> "check", "insert", "commit", "done" or "raised"
    cc_sess,            \* run -> canonical_url -> NewsItem rows flushed by its session
    cc_store            \* canonical_url -> number of committed NewsItem rows

cc_vars == <<cc_items, cc_idx, cc_pc, cc_sess, cc_store>>

\* The parts around the pipeline: HTTP clients, the watchlist API, the
\* choice of thesis, overlapping runs.
ap_vars == <<ua_vars, wl_vars, th_vars, cc_vars>>

\* What the actions of each of these parts leave alone.
ua_others == <<wl_vars, th_vars, cc_vars>>
wl_others == <<ua_vars, th_vars, cc_vars>>
th_others == <<ua_vars, wl_vars, cc_vars>>
cc_others == <<ua_vars, wl_vars, th_vars>>

\* The variables of the parts modelled as functions of their input.
fn_vars == <<an_vars, cu_vars, dd_vars, st_vars, ap_vars>>

vars == <<rl_vars, pl_vars, fn_vars>>

-----------------------------------------------------------------------------
(* Bounds of the model.                                                    *)

\* The largest max_retries argument tried (the default, 3, is within it).
MaxRetriesArg == 3

\* The number of pipeline runs executed one after another.
MaxRuns == 2

\* The number of distinct canonical urls the sources can return.
NumUrls == 2

\* The largest batch one collector returns.
MaxPerCollector == 1

-----------------------------------------------------------------------------
(* RateLimiter: values.                                                    *)

\* Quarter seconds in a second.
QuartersPerSecond == 4

SecQ(n) == n * QuartersPerSecond

\* Optional[float]
NoneF == [some |-> FALSE, val |-> 0]
SomeF(x) == [some |-> TRUE, val |-> x]

\* RateLimiter.CONFIGS: the registered buckets.
CONFIGS == {"sec", "finnhub", "notion", "gemini", "openai", "claude"}

\* The default of execute's max_retries parameter.
DefaultMaxRetries == 3

\* The cap of _calculate_backoff, 60.0 seconds.
MaxWaitSeconds == 60

\* A Retry-After header: absent, a number of seconds, or an HTTP-date lying
\* `delay` seconds ahead.
NoHeader == [form |-> "none", delay |-> 0]
RetryAfterHeaders ==
    {NoHeader}
    \cup {[form |-> "seconds", delay |-> d] : d \in {0, 2, 90}}
    \cup {[form |-> "date", delay |-> d] : d \in {2}}

\* The statuses raise_for_status can raise with.
RetryableStatuses == {500, 502, 503, 504}
HttpStatuses == {429, 404} \cup RetryableStatuses

\* What one invocation of the wrapped operation can do.
OkCall == [kind |-> "ok", status |-> 200, header |-> NoHeader]
HttpError(s, h) == [kind |-> "HTTPStatusError", status |-> s, header |-> h]
OtherError(k) == [kind |-> k, status |-> 0, header |-> NoHeader]
NoCall == [kind |-> "none", status |-> 0, header |-> NoHeader]

CallOutcomes ==
    {OkCall}
    \cup {HttpError(429, h) : h \in RetryAfterHeaders}
    \cup {HttpError(s, NoHeader) : s \in HttpStatuses \ {429}}
    \cup {OtherError(k) : k \in {"ConnectError", "TimeoutException", "ValueError"}}

\* random.uniform(0.75, 1.25), in quarters: its two ends and its middle.
Jitters == {3, 4, 5}

\* What execute gives its caller: nothing yet, a value, or an exception.
NoResult == [outcome |-> "none", error |-> NoCall, retry_after |-> NoneF]
Returned(c) == [outcome |-> "returned", error |-> c, retry_after |-> NoneF]
Raised(e) == [outcome |-> "raised", error |-> e, retry_after |-> NoneF]
RateLimitError(ra) ==
    [outcome |-> "raised", error |-> OtherError("RateLimitError"), retry_after |-> ra]

-----------------------------------------------------------------------------
(* RateLimiter: pure functions.                                            *)

RECURSIVE Pow2(_)
Pow2(n) == IF n <= 0 THEN 1 ELSE 2 * Pow2(n - 1)

Max(a, b) == IF a >= b THEN a ELSE b
Min(a, b) == IF a <= b THEN a ELSE b

\* _parse_retry_after: float(header) when it parses; a date does not parse
\* (ValueError) and gives None, like an absent header.
ParseRetryAfter(h) ==
    IF h.form = "seconds" THEN SomeF(SecQ(h.delay)) ELSE NoneF

\* _calculate_backoff: 2^attempt * jitter, the larger of it and a truthy
\* retry_after, capped at 60 s.  (base_wait * jitter / 4 seconds is
\* base_wait * jitter quarter seconds.)
CalculateBackoff(attempt_, retry_after, jitter) ==
    LET base_wait == Pow2(attempt_)
        w0 == base_wait * jitter
        w1 == IF retry_after.some /\ retry_after.val # 0
                THEN Max(w0, retry_after.val) ELSE w0
    IN  Min(w1, SecQ(MaxWaitSeconds))

\* for attempt in range(max_retries + 1)
InLoopRange(attempt_, mr) == attempt_ < mr + 1

IsServerErrorPlus(s) == s \in RetryableStatuses \cup {404}

\* e.response.status_code in (500, 502, 503, 504)
IsServerError(s) == s \in RetryableStatuses

\* except (httpx.ConnectError, httpx.TimeoutException)
IsNetworkError(c) == c.kind \in {"ConnectError", "TimeoutException"}

\* The failures the middleware is specified to retry: 429, 500/502/503/504,
\* connect and timeout errors.
IsRetryable(c) ==
    \/ c.kind = "HTTPStatusError" /\ c.status \in {429, 500, 502, 503, 504}
    \/ c.kind \in {"ConnectError", "TimeoutException"}

TokensTakenFirstPassOnly(attempt_) == IF attempt_ = 0 THEN 1 ELSE 0

\* await self.acquire(api_name) stands inside the loop: one token a pass.
TokensTaken(attempt_) == 1

-----------------------------------------------------------------------------
(* Pipeline: values.                                                       *)

\* Canonical urls of the items the collectors can return.
Urls == 1..NumUrls

\* Run ids, in the order uuid4() hands them out.
RunIds == 1..MaxRuns

Channels == {"notion", "markdown"}

\* Pipeline.__init__: self.stats
ZeroStats ==
    [raw_collected |-> 0, after_normalize |-> 0, after_dedup |-> 0,
     analyzed_success |-> 0, analyzed_failed |-> 0, delivered |-> 0]

\* A PipelineRun row; exists = FALSE stands for "no such row".
NoRun == [exists |-> FALSE, status |-> "none", stats |-> ZeroStats, error_log |-> ""]

\* Exceptions a stage can raise, with the text str() gives for each.
NoExc == [type |-> "none", msg |-> ""]
WatchlistError == [type |-> "YAMLError", msg |-> "watchlist unreadable"]
ProcessError == [type |-> "ValueError", msg |-> "processing failed"]
DbError == [type |-> "OperationalError", msg |-> "database unreachable"]

\* str(e)
Str(e) == e.msg

\* The ticker each item is tagged with.
TickerOf(u) == IF u % 2 = 1 THEN "NVDA" ELSE "AMD"

\* Sequences over S of length at most n.
RECURSIVE SeqsUpTo(_, _)
SeqsUpTo(S, n) ==
    IF n = 0 THEN {<<>>}
    ELSE LET shorter == SeqsUpTo(S, n - 1)
         IN  shorter \cup {Append(s, x) : s \in {t \in shorter : Len(t) = n - 1}, x \in S}

Range(s) == {s[i] : i \in 1..Len(s)}

\* The batch of FinnhubNewsCollector.collect holds no url twice.
CollectorBatches ==
    {s \in SeqsUpTo(Urls, MaxPerCollector) : Cardinality(Range(s)) = Len(s)}

\* The batch of SECFilingCollector.collect is the concatenation of the
\* tickers' filings and can hold a url more than once.
SecBatches == SeqsUpTo(Urls, MaxPerCollector)

\* An outbound request: the remote API, and whether it went through
\* rate_limiter.execute (a token acquired on that API's bucket).
Request(api, limited) == [api |-> api, via_limiter |-> limited]

-----------------------------------------------------------------------------
(* Pipeline: helpers.                                                      *)

\* Deduplicator stage 1 as process() applies it: the first occurrence of
\* each canonical url is kept, in input order.
RECURSIVE UrlDedup(_)
UrlDedup(s) ==
    IF s = <<>> THEN <<>>
    ELSE LET front == SubSeq(s, 1, Len(s) - 1)
             kept == UrlDedup(front)
         IN  IF s[Len(s)] \in Range(front) THEN kept ELSE Append(kept, s[Len(s)])

\* crud.update_pipeline_run: None when the row is missing, else the fields set.
UpdatePipelineRunRow(runs, id, status, st, error_log) ==
    IF runs[id].exists
      THEN [runs EXCEPT ![id] = [exists |-> TRUE, status |-> status,
                                 stats |-> st, error_log |-> error_log]]
      ELSE runs

\* crud.get_news_item_by_url inside the stage's session: committed rows and
\* the rows this session has flushed.
ExistingNewsItem(u) == news_items[u] + sess_news[u] > 0

DigestDropFailed(d, u) == d

\* digest_items.append(DigestItem(news=news_create, analysis=None)) after a
\* failed analysis.
DigestAfterFailure(d, u) == Append(d, [url |-> u, analyzed |-> FALSE])

\* digest_items.append(DigestItem(news=news_create, analysis=analysis))
\* A variant of DigestAfterSuccess that puts the new item first.
DigestNewestFirst(d, u) == <<[url |-> u, analyzed |-> TRUE]>> \o d

DigestAfterSuccess(d, u) == Append(d, [url |-> u, analyzed |-> TRUE])

\* The LLM request of one provider call: GeminiProvider._call_api calls the
\* SDK directly, OpenAIProvider._call_api goes through rate_limiter.execute.
ProviderRequest(p) ==
    IF p = "openai" THEN Request("openai", TRUE) ELSE Request("gemini", FALSE)

\* The requests of NotionOutput.deliver: databases.retrieve called directly
\* in _detect_title_property, pages.create through rate_limiter.execute.
NotionRequests == {Request("notion", FALSE), Request("notion", TRUE)}

\* A DeliveryLog row of run id for a channel; updates counts the
\* update_delivery_log calls that changed it since it was created pending.
DeliveryLog(id, channel, status, updates) ==
    [run_id |-> id, channel |-> channel, status |-> status, updates |-> updates]

\* _deliver_to_notion's writes to the log table: create_delivery_log with
\* status "pending" before NotionOutput.deliver, then one
\* update_delivery_log to "success" (with the page id) or to "failed" (with
\* str(e)).
NotionDeliveryLogged(logs, id, ok) ==
    logs \cup {DeliveryLog(id, "notion", IF ok THEN "success" ELSE "failed", 1)}

\* The requests of a collector: RateLimitedClient.get.
CollectorRequest(api) == Request(api, TRUE)


\* No collector has returned anything.
NoReturns == [finnhub |-> <<>>, sec |-> <<>>]

\* The store empty and no run started.
PLIdle ==
    /\ pipeline_runs = [r \in RunIds |-> NoRun]
    /\ news_items = [u \in Urls |-> 0]
    /\ analysis_results = {}
    /\ delivery_logs = {}
    /\ sess_news = [u \in Urls |-> 0]
    /\ sess_analysis = {}
    /\ pc = "idle"
    /\ trigger = "none"
    /\ run_id = 0
    /\ runs_started = 0
    /\ stats = ZeroStats
    /\ raw_items = <<>>
    /\ normalized_items = <<>>
    /\ idx = 1
    /\ digest_items = <<>>
    /\ exc = NoExc
    /\ run_result = "none"
    /\ summary_failures = {}
    /\ channel_failures = {}
    /\ collector_failures = {}
    /\ collector_returns = NoReturns
    /\ requests = {}

-----------------------------------------------------------------------------
(* BaseAIProvider.analyze: values.                                         *)

\* The largest token count one model call reports.
MaxTokens == 2

\* A text, by where it comes from and its length in characters.
NoText == [kind |-> "empty", len |-> 0]
Text(kind, n) == IF n = 0 THEN NoText ELSE [kind |-> kind, len |-> n]

\* s[:n]
Slice(t, n) == Text(t.kind, Min(t.len, n))

\* AIAnalysisOutput: the Literal value sets.
EventTypes == {"earnings", "guidance", "regulatory", "contract",
               "product", "accident", "macro", "rumor", "other"}
ImpactDirections == {"bullish", "bearish", "neutral"}
ImpactHorizons == {"short", "medium", "long"}
ThesisRelations == {"supports", "weakens", "unrelated"}
Confidences == {"high", "medium", "low"}

\* AIAnalysisOutput: Field(max_length=...)
ReasonMax == 100
SummaryMax == 100
KeyFactsMax == 3
WatchNextMax == 50

\* AIAnalysisOutput: the slices of the mode='before' validators.
KeyFactsCut == 3
FactCut == 200
SummaryCut == 100
ReasonCut == 100
WatchNextCut == 50

\* _fallback_result: news.title[:100]
FallbackTitleCut == 100

\* A document with every field well formed, and documents that differ from
\* it in one field: a wrong-case or unknown enum value, a missing required
\* field, an over-long text, too many or over-long key facts.
GoodDoc ==
    [event_type |-> "earnings", impact_direction |-> "bullish",
     impact_horizon |-> "short", thesis_relation |-> "supports",
     confidence |-> "high",
     confidence_reason |-> Text("model", 40), summary |-> Text("model", 80),
     key_facts |-> <<Text("model", 50)>>, watch_next |-> Text("model", 20)]

ResponseDocs ==
    {GoodDoc}
    \cup {[GoodDoc EXCEPT !.event_type = v] : v \in {"EARNINGS", "other"}}
    \cup {[GoodDoc EXCEPT !.impact_direction = v] : v \in {"up"}}
    \cup {[GoodDoc EXCEPT !.impact_horizon = v] : v \in {"missing"}}
    \cup {[GoodDoc EXCEPT !.thesis_relation = v] : v \in {"SUPPORTS"}}
    \cup {[GoodDoc EXCEPT !.confidence = v] : v \in {"very high"}}
    \cup {[GoodDoc EXCEPT !.summary = Text("model", n)] : n \in {0, SummaryMax + 1}}
    \cup {[GoodDoc EXCEPT !.confidence_reason = Text("model", n)] : n \in {ReasonMax + 1}}
    \cup {[GoodDoc EXCEPT !.watch_next = Text("model", n)] : n \in {0, WatchNextMax + 1}}
    \cup {[GoodDoc EXCEPT !.key_facts = v] :
            v \in {<<>>,
                   <<Text("model", FactCut + 1)>>,
                   [i \in 1..(KeyFactsMax + 1) |-> Text("model", 10 * i)]}}

\* What the model answers: text that is no JSON, a JSON document holding a
\* provider error object, or a JSON document of analysis fields.
Responses ==
    {[shape |-> s, doc |-> GoodDoc] : s \in {"not_json", "error_object"}}
    \cup {[shape |-> "json", doc |-> d] : d \in ResponseDocs}

TitleLens == {0, 50, 150}
Titles == {Text("title", n) : n \in TitleLens}

\* format_prompt's result, and the prompt with the correction clause.
Prompt == [news |-> "formatted", correction |-> FALSE]

\* 0.001 USD steps
CallCosts == {5, 7}

\* One _call_api: the prompt sent, and either the response with its tokens
\* and cost or the exception of the provider.
ApiCall(prompt, ok, resp, tokens, cost) ==
    [prompt |-> prompt, ok |-> ok, response |-> resp, tokens |-> tokens, cost |-> cost]

NoAnalysis ==
    [outcome |-> "none", doc |-> GoodDoc, error |-> "", tokens |-> 0, cost |-> 0]
AnalysisReturned(doc, tokens, cost) ==
    [outcome |-> "returned", doc |-> doc, error |-> "", tokens |-> tokens, cost |-> cost]
AnalysisRaised(e) ==
    [outcome |-> "raised", doc |-> GoodDoc, error |-> e, tokens |-> 0, cost |-> 0]

-----------------------------------------------------------------------------
(* BaseAIProvider.analyze: pure functions.                                 *)

KeepFact(f) == f

\* str(f)[:200]
TruncateFact(f) == Slice(f, FactCut)

\* validate_key_facts: [str(f)[:200] for f in v[:3]]
ValidateKeyFacts(v) == [i \in 1..Min(Len(v), KeyFactsCut) |-> TruncateFact(v[i])]

\* The mode='before' validators of AIAnalysisOutput.
BeforeValidators(d) ==
    [d EXCEPT !.key_facts = ValidateKeyFacts(@),
              !.summary = Slice(@, SummaryCut),
              !.confidence_reason = Slice(@, ReasonCut),
              !.watch_next = Slice(@, WatchNextCut)]

\* The field types and Field constraints of AIAnalysisOutput.
FieldsOk(d) ==
    /\ d.event_type \in EventTypes
    /\ d.impact_direction \in ImpactDirections
    /\ d.impact_horizon \in ImpactHorizons
    /\ d.thesis_relation \in ThesisRelations
    /\ d.confidence \in Confidences
    /\ d.confidence_reason.len <= ReasonMax
    /\ d.summary.len <= SummaryMax
    /\ Len(d.key_facts) <= KeyFactsMax
    /\ d.watch_next.len <= WatchNextMax

\* AIAnalysisOutput.model_validate(data) / AIAnalysisOutput(...): the
\* validated object, or ValidationError.
ModelValidate(d) ==
    LET v == BeforeValidators(d)
    IN  IF FieldsOk(v) THEN [kind |-> "doc", doc |-> v]
                       ELSE [kind |-> "ValidationError", doc |-> v]

\* ValidationError.from_exception_data(title, [{"type": t, "msg": ...}]).
\* pydantic-core builds line errors only from error types it knows, with
\* the context the type requires: "json_invalid" without ctx is a
\* TypeError, the unknown type "api_error" a KeyError.  A build that
\* accepts the details gives the ValidationError.
FromExceptionData(t, strict) ==
    IF ~strict THEN "ValidationError"
    ELSE IF t = "json_invalid" THEN "TypeError" ELSE "KeyError"

\* _parse_and_validate
ParseAndValidate(resp, strict) ==
    CASE resp.shape = "not_json" ->
            [kind |-> FromExceptionData("json_invalid", strict), doc |-> resp.doc]
      [] resp.shape = "error_object" ->
            [kind |-> FromExceptionData("api_error", strict), doc |-> resp.doc]
      [] OTHER -> ModelValidate(resp.doc)

\* _make_strict_prompt: the original prompt followed by the correction clause.
MakeStrictPrompt(prompt) == [prompt EXCEPT !.correction = TRUE]

\* _fallback_result
FallbackResult(title) ==
    ModelValidate(
        [event_type |-> "other", impact_direction |-> "neutral",
         impact_horizon |-> "short", thesis_relation |-> "unrelated",
         confidence |-> "low",
         confidence_reason |-> Text("Analysis failed, using fallback", 31),
         summary |-> IF title.len > 0 THEN Slice(title, FallbackTitleCut)
                                      ELSE Text("No summary", 10),
         key_facts |-> <<>>,
         watch_next |-> NoText]).doc

RepairOnly(a, b) == b

\* tokens + tokens2, cost + cost2
BothCalls(a, b) == a + b

-----------------------------------------------------------------------------
(* Deduplicator.canonicalize_url: values and pure functions.               *)

\* The longest query of an input url, in parameters.
MaxQueryLen == 2

\* The number of tracking parameters added to a url.
MaxAdded == 1

\* A url as urlparse splits it.  The path is its text without trailing
\* slashes and the number of trailing slashes; the query is the sequence of
\* its name=value parameters as written.
Url(scheme, netloc, body, slashes, query, fragment) ==
    [scheme |-> scheme, netloc |-> netloc,
     path |-> [body |-> body, slashes |-> slashes],
     params |-> "", query |-> query, fragment |-> fragment]

\* The empty string as a url.
EmptyUrl == Url("", "", "", 0, <<>>, "")

QueryKeys == {"page", "utm_source", "utm_id", "Ref"}
QueryValues == {"1", "", "a%20b"}
QueryParams == {[k |-> k, v |-> v] : k \in QueryKeys, v \in QueryValues}

InputUrls ==
    {EmptyUrl}
    \cup {Url(s, n, b, sl, q, f) :
            s \in {"https", "HTTPS"}, n \in {"example.com", "Example.com"},
            b \in {"", "/News/Article"}, sl \in {0, 1, 2},
            q \in SeqsUpTo(QueryParams, MaxQueryLen), f \in {"", "top"}}

\* Deduplicator.TRACKING_PARAMS
TRACKING_PARAMS ==
    {"utm_source", "utm_medium", "utm_campaign", "utm_term", "utm_content",
     "ref", "source", "fbclid", "gclid", "msclkid", "mc_cid", "mc_eid",
     "affiliate", "partner", "tracking", "_ga", "ncid", "sr_share"}

\* str.lower() on the strings of the model.
Lower(s) ==
    CASE s = "HTTPS" -> "https"
      [] s = "Example.com" -> "example.com"
      [] s = "Ref" -> "ref"
      [] s = "UTM_MEDIUM" -> "utm_medium"
      [] OTHER -> s

\* Percent-decoding as parse_qs does it ('+' and %20 are a space), and
\* quote_plus as urlencode does it.
Unquote(s) == IF s \in {"a%20b", "a+b"} THEN "a b" ELSE s
QuotePlus(s) == IF s = "a b" THEN "a+b" ELSE s

\* The keys of a dict in insertion order: first occurrences.
RECURSIVE DictKeys(_)
DictKeys(s) ==
    IF s = <<>> THEN <<>>
    ELSE LET front == SubSeq(s, 1, Len(s) - 1)
             keys == DictKeys(front)
         IN  IF s[Len(s)] \in Range(front) THEN keys ELSE Append(keys, s[Len(s)])

\* parse_qs(query, keep_blank_values=False): parameters with a blank value
\* are dropped, names and values decoded, the values of a name collected
\* in a list under the name's first occurrence.
ParseQs(query) ==
    LET NonBlank(p) == p.v # ""
        kept == SelectSeq(query, NonBlank)
        decoded == [i \in 1..Len(kept) |-> [k |-> Unquote(kept[i].k), v |-> Unquote(kept[i].v)]]
        keys == DictKeys([i \in 1..Len(decoded) |-> decoded[i].k])
    IN  [i \in 1..Len(keys) |->
            LET HasKey(p) == p.k = keys[i]
                mine == SelectSeq(decoded, HasKey)
            IN  [k |-> keys[i], vs |-> [j \in 1..Len(mine) |-> mine[j].v]]]

\* {k: v for k, v in params.items() if k.lower() not in TRACKING_PARAMS}
FilterParams(params) ==
    LET NotTracking(e) == Lower(e.k) \notin TRACKING_PARAMS
    IN  SelectSeq(params, NotTracking)

\* urlencode(filtered_params, doseq=True)
RECURSIVE UrlEncode(_)
UrlEncode(params) ==
    IF params = <<>> THEN <<>>
    ELSE LET e == params[1]
         IN  [j \in 1..Len(e.vs) |-> [k |-> QuotePlus(e.k), v |-> QuotePlus(e.vs[j])]]
             \o UrlEncode(Tail(params))

\* canonicalize_url
CanonicalizeUrl(url) ==
    IF url = EmptyUrl THEN EmptyUrl
    ELSE [scheme |-> Lower(url.scheme),
          netloc |-> Lower(url.netloc),
          path |-> [body |-> url.path.body, slashes |-> 0],
          params |-> url.params,
          query |-> IF url.query # <<>> THEN UrlEncode(FilterParams(ParseQs(url.query)))
                                        ELSE <<>>,
          fragment |-> ""]

-----------------------------------------------------------------------------
(* Deduplicator.deduplicate: values and pure functions.                    *)

\* The longest input list of deduplicate.
MaxItems == 3

\* published_at None.
NoDate == [day |-> "", hour |-> 0]

\* RawNewsData: the fields deduplicate reads.  A title is the sequence of its
\* characters; published_at is None or an hour of a day.
RawNewsData(url, title, published_at, source) ==
    [url |-> url, title |-> title, published_at |-> published_at, source |-> source]

\* The items of the input lists.  Four urls, the second differing from the
\* first in the host's case, a trailing slash, a tracking parameter and a
\* fragment; titles "", "A B", "a  b!", "A B G" and "!"; no date, and a
\* morning and an evening of one day; two sources.
InputItems ==
    LET UrlA == Url("https", "example.com", "/News/Article", 0, <<>>, "")
        UrlATracked == Url("https", "Example.com", "/News/Article", 1,
                           <<[k |-> "utm_source", v |-> "1"]>>, "top")
        UrlB == Url("https", "example.com", "/Other", 0, <<>>, "")
        UrlC == Url("https", "example.com", "/Third", 0, <<>>, "")
        EmptyTitle == <<>>
        TitleAB == <<"A", " ", "B">>
        TitleAbBang == <<"a", " ", " ", "b", "!">>
        TitleABG == <<"A", " ", "B", " ", "G">>
        TitleBang == <<"!">>
        Day1Morning == [day |-> "2024-01-15", hour |-> 9]
        Day1Evening == [day |-> "2024-01-15", hour |-> 17]
    IN  {RawNewsData(u, TitleAB, p, "finnhub") :
            u \in {UrlA, UrlATracked, UrlB}, p \in {NoDate, Day1Morning}}
        \cup {RawNewsData(u, EmptyTitle, NoDate, "finnhub") : u \in {UrlA, UrlB}}
        \cup {RawNewsData(UrlC, t, Day1Evening, "finnhub") :
                t \in {TitleAbBang, TitleABG, TitleBang}}
        \cup {RawNewsData(UrlC, TitleAB, Day1Morning, "sec")}

\* DedupClusterInfo; similarity_score None is NoScore.
NoScore == -1
DedupClusterInfo(representative_url, member_urls, method, similarity_score) ==
    [representative_url |-> representative_url, member_urls |-> member_urls,
     method |-> method, similarity_score |-> similarity_score]

\* DedupResult
DedupResult(kept_items, removed_count, clusters) ==
    [kept_items |-> kept_items, removed_count |-> removed_count, clusters |-> clusters]

\* The characters of a title are named by strings: letters, digits, "!",
\* "_", " ", and "TAB" (a tab), "NBSP" (U+00A0), "FULLWIDTH_A" (U+FF21),
\* "E_ACUTE" and "e_acute" (U+00C9, U+00E9).
WhiteSpace == {" ", "TAB"}

\* unicodedata.normalize('NFKC', .) on a character.
Nfkc(c) ==
    CASE c = "FULLWIDTH_A" -> "A"
      [] c = "NBSP" -> " "
      [] OTHER -> c

\* str.lower() on a character; re.sub(r'[^\w\s]', ' ', .) on a character:
\* letters of any script, digits and "_" are \w.
LowerChar(c) ==
    CASE c = "A" -> "a"
      [] c = "B" -> "b"
      [] c = "G" -> "g"
      [] c = "E_ACUTE" -> "e_acute"
      [] OTHER -> c
Depunctuate(c) == IF c = "!" THEN " " ELSE c

\* str.split(): the maximal runs of characters other than white space.
RECURSIVE SplitFrom(_, _, _)
SplitFrom(s, word, words) ==
    IF s = <<>> THEN (IF word = <<>> THEN words ELSE Append(words, word))
    ELSE IF Head(s) \in WhiteSpace
           THEN SplitFrom(Tail(s), <<>>, IF word = <<>> THEN words ELSE Append(words, word))
           ELSE SplitFrom(Tail(s), Append(word, Head(s)), words)
Split(s) == SplitFrom(s, <<>>, <<>>)

\* ' '.join(words)
RECURSIVE Join(_)
Join(words) ==
    IF words = <<>> THEN <<>>
    ELSE IF Len(words) = 1 THEN Head(words)
    ELSE Head(words) \o <<" ">> \o Join(Tail(words))

\* normalize_title
NormalizeTitle(title) ==
    IF title = <<>> THEN <<>>
    ELSE Join(Split([i \in 1..Len(title) |-> Depunctuate(LowerChar(Nfkc(title[i])))]))

\* strftime("%Y-%m-%d"), "" for None
DateStr(published_at) == IF published_at = NoDate THEN "" ELSE published_at.day

\* compute_content_hash: sha256 of title_norm|date_str|source, which is
\* one-to-one on the three parts (a normalized title and a date hold no '|').
ComputeContentHash(item) ==
    <<NormalizeTitle(item.title), DateStr(item.published_at), item.source>>

\* The key of stage 1: canonicalize_url(item.url); and the url as it is.
RawUrlKey(item) == item.url
UrlKey(item) == CanonicalizeUrl(item.url)

\* The elements of a set of numbers in increasing order.
RECURSIVE Ascending(_)
Ascending(S) ==
    IF S = {} THEN <<>>
    ELSE LET m == CHOOSE x \in S : \A y \in S : x <= y
         IN  <<m>> \o Ascending(S \ {m})

\* The items at the positions P of s, in order.
SeqAt(s, P) == LET ps == Ascending(P) IN [k \in 1..Len(ps) |-> s[ps[k]]]

\* A stage left out: every item goes on to the next stage.
SkipStage(input, items) == [items |-> items, clusters |-> <<>>, merged |-> {}]

\* The loop of _url_dedup and _hash_dedup over items (positions of the input
\* list), with the key of each item: `seen` keeps the first item of each key,
\* `duplicates` gets a list per key when its second item comes, and
\* list(seen.values()) and duplicates.items() follow insertion order.
\* merged is the history of (representative, removed item, method).
ExactDedup(keys, method, input, items) ==
    LET n == Len(items)
        first(p) == CHOOSE q \in 1..p :
                        /\ keys[items[q]] = keys[items[p]]
                        /\ \A r \in 1..(q - 1) : keys[items[r]] # keys[items[p]]
        seen == {p \in 1..n : first(p) = p}
        members(q) == {p \in 1..n : p # q /\ first(p) = q}
        second(q) == CHOOSE p \in members(q) : \A r \in members(q) : p <= r
        order == Ascending({second(q) : q \in {s \in seen : members(s) # {}}})
    IN  [items |-> SeqAt(items, seen),
         clusters |-> [k \in 1..Len(order) |->
                          LET q == first(order[k])
                          IN  DedupClusterInfo(
                                  input[items[q]].url,
                                  [m \in 1..Cardinality(members(q)) |->
                                      input[SeqAt(items, members(q))[m]].url],
                                  method, NoScore)],
         merged |-> {[rep |-> items[first(p)], member |-> items[p], method |-> method] :
                        p \in (1..n) \ seen}]

\* _url_dedup
Stage1UrlDedup(input, items) ==
    ExactDedup([i \in 1..Len(input) |-> UrlKey(input[i])], "url_exact", input, items)

\* _hash_dedup
Stage2HashDedup(input, items) ==
    ExactDedup([i \in 1..Len(input) |-> ComputeContentHash(input[i])], "hash_match",
               input, items)

\* Simhash(a).distance(Simhash(b)) turned into a similarity and compared with
\* the threshold: equal texts have distance 0; for different texts the build
\* and the threshold decide, which simhash_similar records.
SimhashSimilar(a, b) ==
    LET ta == NormalizeTitle(a.title)
        tb == NormalizeTitle(b.title)
    IN  ta = tb \/ {ta, tb} \in simhash_similar

\* The Jaccard similarity of the two token sets compared with the threshold
\* (in hundredths); 0 when either set is empty.
JaccardSimilar(a, b) ==
    LET tokens_i == Range(Split(NormalizeTitle(a.title)))
        tokens_j == Range(Split(NormalizeTitle(b.title)))
        intersection == Cardinality(tokens_i \cap tokens_j)
        union == Cardinality(tokens_i \cup tokens_j)
    IN  IF tokens_i # {} /\ tokens_j # {}
          THEN intersection * 100 >= similarity_threshold * union
          ELSE 0 >= similarity_threshold

\* The double loop of _simhash_dedup (over hashes) and of
\* _simple_similarity_dedup (over items), from position i of list on.
RECURSIVE SimilarityLoop(_, _, _, _, _)
SimilarityLoop(simhash, input, list, i, acc) ==
    IF i > Len(list) THEN acc
    ELSE IF i \in acc.removed THEN SimilarityLoop(simhash, input, list, i + 1, acc)
    ELSE LET item_i == input[list[i]]
             similar == {j \in (i + 1)..Len(list) :
                            /\ j \notin acc.removed
                            /\ IF simhash THEN SimhashSimilar(item_i, input[list[j]])
                                          ELSE JaccardSimilar(item_i, input[list[j]])}
             urls == [m \in 1..Cardinality(similar) |-> input[SeqAt(list, similar)[m]].url]
         IN  SimilarityLoop(simhash, input, list, i + 1,
                 [removed |-> acc.removed \cup similar,
                  items |-> Append(acc.items, list[i]),
                  clusters |-> IF similar = {} THEN acc.clusters
                               ELSE Append(acc.clusters,
                                        DedupClusterInfo(item_i.url, urls, "similarity",
                                                         similarity_threshold)),
                  merged |-> acc.merged \cup
                               {[rep |-> list[i], member |-> list[j], method |-> "similarity"] :
                                    j \in similar}])

NoneMerged == [removed |-> {}, items |-> <<>>, clusters |-> <<>>, merged |-> {}]

\* _simhash_dedup: only the items whose normalized title is not empty get a
\* hash and enter the loop.
SimhashDedup(input, items) ==
    LET hashes == SeqAt(items, {p \in 1..Len(items) :
                                   NormalizeTitle(input[items[p]].title) # <<>>})
        out == SimilarityLoop(TRUE, input, hashes, 1, NoneMerged)
    IN  [items |-> out.items, clusters |-> out.clusters, merged |-> out.merged]

\* _simple_similarity_dedup
SimpleSimilarityDedup(input, items) ==
    LET out == SimilarityLoop(FALSE, input, items, 1, NoneMerged)
    IN  [items |-> out.items, clusters |-> out.clusters, merged |-> out.merged]

\* _similarity_dedup
Stage3SimilarityDedup(input, items) ==
    IF Len(items) <= 1 THEN [items |-> items, clusters |-> <<>>, merged |-> {}]
    ELSE IF simhash_available THEN SimhashDedup(input, items)
    ELSE SimpleSimilarityDedup(input, items)

\* removed_count = original_count - len(items); and the number kept.
KeptCount(original_count, items) == Len(items)
RemovedCount(original_count, items) == original_count - Len(items)

-----------------------------------------------------------------------------
(* Normalizer._normalize_item: values and pure functions.                  *)

\* The longest title given to the normalizer, in characters.
MaxTitleLen == 3

TitleChars == {"A", "b", "4", "!", " ", "TAB", "_", "E_ACUTE", "FULLWIDTH_A"}

\* Normalizer.CREDIBILITY_MAP
CREDIBILITY_MAP ==
    [sec |-> "high", finnhub |-> "medium", polygon |-> "medium", default |-> "low"]

\* The raw items given to the normalizer: any title; no date, the morning and
\* the evening of a day; a listed and an unlisted source; news or filing.
NormalizerInputs ==
    {[url |-> Url("https", "example.com", "/News/Article", 0, <<>>, ""),
      title |-> t, published_at |-> p, source |-> src, source_type |-> st] :
        t \in SeqsUpTo(TitleChars, MaxTitleLen),
        p \in {NoDate, [day |-> "2024-01-15", hour |-> 9], [day |-> "2024-01-15", hour |-> 17]},
        src \in {"sec", "finnhub", "rss"},
        st \in {"news", "filing"}}

\* The lookup table alone.
CredibilityOfSource(source, source_type) ==
    IF source \in DOMAIN CREDIBILITY_MAP THEN CREDIBILITY_MAP[source]
                                         ELSE CREDIBILITY_MAP["default"]

\* _determine_credibility
DetermineCredibility(source, source_type) ==
    IF source_type = "filing" THEN "high"
    ELSE IF source \in DOMAIN CREDIBILITY_MAP THEN CREDIBILITY_MAP[source]
    ELSE CREDIBILITY_MAP["default"]

\* _normalize_item: the NewsItemCreate.  now is the day of datetime.utcnow().
NormalizeItem(raw, now) ==
    [canonical_url |-> CanonicalizeUrl(raw.url),
     title |-> raw.title,
     title_normalized |-> NormalizeTitle(raw.title),
     content_hash |-> ComputeContentHash(raw),
     published_at |-> IF raw.published_at # NoDate THEN raw.published_at
                                                  ELSE [day |-> now, hour |-> 0],
     source |-> raw.source,
     source_type |-> raw.source_type,
     credibility |-> DetermineCredibility(raw.source, raw.source_type)]

-----------------------------------------------------------------------------
(* RateLimitedClient and SECClient: values and functions.                  *)

\* The most requests one client sends.
MaxRequests == 2

\* user_agent = None.
NoneUA == "None"

\* The user agent strings: the empty string and a contact string.
UserAgents == {"", "NewsFeed/1.0 (contact@example.com)"}

\* The header httpx puts on a request whose client was given none.
HttpxDefault == "python-httpx"

\* RateLimitConfig, its two user agent fields.
RateLimitConfig(user_agent_required, user_agent) ==
    [user_agent_required |-> user_agent_required, user_agent |-> user_agent]

NoConfig == RateLimitConfig(FALSE, NoneUA)

\* self._client is None.
NoClient == [built |-> FALSE, user_agent |-> NoneUA]

\* Python's truth value of an Optional[str].
Truthy(str) == str \notin {NoneUA, ""}

\* RateLimitedClient.client: headers["User-Agent"] is set only when
\* the config requires one and holds one.  NoneUA is no such header.
BaseClientHeader(config) ==
    IF config.user_agent_required /\ Truthy(config.user_agent)
      THEN config.user_agent
      ELSE NoneUA

\* SECClient.__init__ and SECClient.client: the header is
\* user_agent or settings.sec_user_agent, whatever it holds.
SecClientHeader(arg, setting) == IF Truthy(arg) THEN arg ELSE setting

\* The User-Agent header of a request sent by a client built with header h.
SentUserAgent(h) == IF h = NoneUA THEN HttpxDefault ELSE h

-----------------------------------------------------------------------------
(* The watchlist API: values and functions.                                *)

\* The tickers a client sends, in either case.
ClientTickers == {"nvda", "NVDA", "Amd", "AMD"}

\* str.upper() on those tickers.
Upper(t) ==
    CASE t = "nvda" -> "NVDA"
      [] t = "Amd" -> "AMD"
      [] OTHER -> t

\* The thesis values a request body carries; "None" is an unset field.
Theses == {"None", "AI capex"}

\* A request to /api/watchlist.
WatchlistRequest(method, ticker, thesis) ==
    [method |-> method, ticker |-> ticker, thesis |-> thesis]

NoRequest == WatchlistRequest("none", "", "None")

\* WatchlistItemBase.uppercase_ticker, the `before` validator of the body.
UppercaseTicker(v) == IF v # "" THEN Upper(v) ELSE v

\* A variant of PathTicker: the path parameter as sent.
PathTickerAsSent(ticker) == ticker

\* The ticker an endpoint looks up: ticker.upper() of the path parameter.
PathTicker(ticker) == Upper(ticker)

\* crud.get_watchlist_item: the rows with that ticker.
GetWatchlistItem(rows, ticker) == {r \in rows : r.ticker = ticker}

\* crud.create_watchlist_item: a row with ticker=item.ticker.upper().
CreateWatchlistItem(rows, item) ==
    rows \cup {[ticker |-> Upper(item.ticker), thesis |-> item.thesis]}

\* crud.update_watchlist_item: the fields that are set in the body
\* replace the row's.
UpdateWatchlistItem(rows, ticker, item) ==
    {IF r.ticker = ticker /\ item.thesis # "None"
       THEN [r EXCEPT !.thesis = item.thesis]
       ELSE r : r \in rows}

\* crud.delete_watchlist_item: delete ... where ticker = :ticker.
DeleteWatchlistItem(rows, ticker) == {r \in rows : r.ticker # ticker}

-----------------------------------------------------------------------------
(* The thesis of an item: values and functions.                            *)

\* What the watchlist holds for a ticker: no entry, an entry without the
\* thesis key, or an entry whose thesis is null, empty or a text.
ThesisEntries == {"NotListed", "KeyMissing", "None", "", "thesis"}

\* The text of a ticker's thesis, when its entry has one.
ThesisText(t) == IF t = "NVDA" THEN "NVDA thesis" ELSE "AMD thesis"

\* Pipeline.run: thesis_map = {item["ticker"]: item.get("thesis", "")
\* for item in watchlist}, a function on the listed tickers.
ThesisMap(watchlist) ==
    [t \in {x \in DOMAIN watchlist : watchlist[x] # "NotListed"} |->
        IF watchlist[t] = "KeyMissing" THEN ""
        ELSE IF watchlist[t] = "thesis" THEN ThesisText(t)
        ELSE watchlist[t]]

\* _analyze_and_save: thesis = "", then the loop over news_create.tickers
\* from position i that stops at the first ticker in thesis_map.
RECURSIVE SelectThesis(_, _, _)
SelectThesis(tickers, thesis_map, i) ==
    IF i > Len(tickers) THEN ""
    ELSE IF tickers[i] \in DOMAIN thesis_map THEN thesis_map[tickers[i]]
    ELSE SelectThesis(tickers, thesis_map, i + 1)

-----------------------------------------------------------------------------
(* Overlapping runs: values.                                               *)

\* Two background tasks of POST /jobs/run.
Runs == {"run1", "run2"}

-----------------------------------------------------------------------------
(* Step 4.5 of Pipeline.run, the per-ticker limit: values and functions.   *)

\* The largest limit_per_ticker and the longest list it is applied to.
MaxLimit == 2
MaxLimitItems == 4

Tickers == {"NVDA", "AMD"}

\* news_create.tickers of an item: none, one ticker, or both in either order.
TickerLists == {<<>>, <<"NVDA">>, <<"AMD">>, <<"NVDA", "AMD">>, <<"AMD", "NVDA">>}

\* ticker_counts[ticker] = ticker_counts.get(ticker, 0) + 1 for each ticker
\* of the list.
RECURSIVE CountTickers(_, _)
CountTickers(ticker_counts, tickers) ==
    IF tickers = <<>> THEN ticker_counts
    ELSE CountTickers([ticker_counts EXCEPT ![Head(tickers)] = @ + 1], Tail(tickers))

\* should_include: no tickers, or some ticker of the item is below the limit.
ShouldInclude(ticker_counts, tickers, limit) ==
    IF tickers # <<>> THEN \E k \in 1..Len(tickers) : ticker_counts[tickers[k]] < limit
                      ELSE TRUE

\* The loop over normalized_items from position i on; limited_items holds the
\* positions of the items kept.
RECURSIVE LimitLoop(_, _, _, _, _)
LimitLoop(items, limit, i, limited_items, ticker_counts) ==
    IF i > Len(items) THEN limited_items
    ELSE IF ShouldInclude(ticker_counts, items[i], limit)
           THEN LimitLoop(items, limit, i + 1, Append(limited_items, i),
                          CountTickers(ticker_counts, items[i]))
           ELSE LimitLoop(items, limit, i + 1, limited_items, ticker_counts)

\* if self.limit_per_ticker: ... normalized_items = limited_items
ApplyLimit(items, limit) ==
    IF limit # 0 THEN LimitLoop(items, limit, 1, <<>>, [t \in Tickers |-> 0])
                 ELSE [i \in 1..Len(items) |-> i]

-----------------------------------------------------------------------------
(* The collectors' collect(): values and functions.                        *)

\* The longest tickers argument and the longest result of one ticker's task.
\* The longest tickers argument of a collector's collect().
MaxTickers == 2

\* The most articles or filings one ticker's response holds.
MaxPerTicker == 2

\* CIK_MAP, for three of its tickers.
CIK_MAP == [GOOGL |-> "1652044", GOOG |-> "1652044", NVDA |-> "1045810"]

\* The tickers argument: a watchlist names no ticker twice.
TickerArguments ==
    {s \in SeqsUpTo(DOMAIN CIK_MAP, MaxTickers) : Cardinality(Range(s)) = Len(s)}

\* What asyncio.gather(..., return_exceptions=True) holds for one task: an
\* exception, or the articles or filings of the response, each named by a
\* number (the article's url at Finnhub, the accession number at SEC).
TaskResults ==
    {[ok |-> FALSE, ids |-> <<>>]}
    \cup {[ok |-> TRUE, ids |-> ids] : ids \in SeqsUpTo(1..2, MaxPerTicker)}

\* The url of an item: raw.get("url") at Finnhub;
\* https://www.sec.gov/Archives/edgar/data/{cik}/{accession}/{doc} at SEC.
ItemUrl(collector, ticker, id) ==
    IF collector = "sec" THEN <<CIK_MAP[ticker], id>> ELSE <<"finnhub.io", id>>

\* The RawNewsData items of one task's result.
TaskItems(collector, ticker, result) ==
    [k \in 1..Len(result.ids) |->
        [url |-> ItemUrl(collector, ticker, result.ids[k]), ticker |-> ticker]]

\* FinnhubNewsCollector.collect, the loop from task i on: an item is
\* appended unless its url was seen.
RECURSIVE FinnhubCollect(_, _, _, _)
FinnhubCollect(tickers, results, i, all_news) ==
    IF i > Len(tickers) THEN all_news
    ELSE IF ~results[i].ok THEN FinnhubCollect(tickers, results, i + 1, all_news)
    ELSE LET items == TaskItems("finnhub", tickers[i], results[i])
             seen_urls == {all_news[k].url : k \in 1..Len(all_news)}
             fresh == {k \in 1..Len(items) :
                          /\ items[k].url \notin seen_urls
                          /\ \A j \in 1..(k - 1) : items[j].url # items[k].url}
         IN  FinnhubCollect(tickers, results, i + 1, all_news \o SeqAt(items, fresh))

\* SECFilingCollector.collect, the loop from task i on:
\* all_filings.extend(result).
RECURSIVE SecCollect(_, _, _, _)
SecCollect(tickers, results, i, all_filings) ==
    IF i > Len(tickers) THEN all_filings
    ELSE IF ~results[i].ok THEN SecCollect(tickers, results, i + 1, all_filings)
    ELSE SecCollect(tickers, results, i + 1,
                    all_filings \o TaskItems("sec", tickers[i], results[i]))

-----------------------------------------------------------------------------
(* The parts modelled as functions of their input: rest states.            *)

\* No analyze in progress.
ANIdle ==
    /\ an_pc = "done"
    /\ pydantic_strict = FALSE
    /\ an_title = NoText
    /\ an_calls = <<>>
    /\ an_result = NoAnalysis

NoUrls == [c1 |-> EmptyUrl, c2 |-> EmptyUrl, c3 |-> EmptyUrl]

\* No canonicalize_url in progress.
CUIdle ==
    /\ cu_pc = "done"
    /\ cu_url = EmptyUrl
    /\ cu_tracked = EmptyUrl
    /\ cu_added = 0
    /\ cu_out = NoUrls

NoDedupResult == [kept_items |-> <<>>, removed_count |-> 0, clusters |-> <<>>]

\* No deduplicate in progress.
DDIdle ==
    /\ dd_pc = "done"
    /\ simhash_available = FALSE
    /\ simhash_similar = {}
    /\ similarity_threshold = 85
    /\ dd_input = <<>>
    /\ dd_items = <<>>
    /\ dd_clusters = <<>>
    /\ dd_merged = {}
    /\ dd_result = NoDedupResult

\* No _normalize_item in progress.
NZIdle ==
    /\ nz_pc = "done"
    /\ nz_raw = <<>>
    /\ nz_now = ""
    /\ nz_news = <<>>
    /\ nz_row = <<>>

\* No per-ticker limit in progress.
LTIdle ==
    /\ lt_pc = "done"
    /\ limit_per_ticker = 0
    /\ lt_items = <<>>
    /\ lt_kept = <<>>

\* No collect() in progress.
COIdle ==
    /\ co_pc = "done"
    /\ co_collector = "none"
    /\ co_tickers = <<>>
    /\ co_results = <<>>
    /\ co_out = <<>>

STIdle == NZIdle /\ LTIdle /\ COIdle

\* No HTTP client exists.
UAIdle ==
    /\ ua_class = "none"
    /\ ua_config = NoConfig
    /\ ua_arg = NoneUA
    /\ ua_setting = ""
    /\ ua_client = NoClient
    /\ ua_sent = <<>>

\* The watchlist table empty and no request made.
WLIdle ==
    /\ wl_rows = {}
    /\ wl_before = {}
    /\ wl_req = NoRequest
    /\ wl_resp = 0

\* No thesis is being chosen.
THIdle ==
    /\ th_pc = "done"
    /\ th_watchlist = [t \in Tickers |-> "NotListed"]
    /\ th_tickers = <<>>
    /\ th_thesis = ""

\* No run is in its analyze stage.
CCIdle ==
    /\ cc_items = [r \in Runs |-> <<>>]
    /\ cc_idx = [r \in Runs |-> 1]
    /\ cc_pc = [r \in Runs |-> "done"]
    /\ cc_sess = [r \in Runs |-> [u \in Urls |-> 0]]
    /\ cc_store = [u \in Urls |-> 0]

APIdle == UAIdle /\ WLIdle /\ THIdle /\ CCIdle

\* The parts modelled as functions of their input, at rest.
FNIdle == ANIdle /\ CUIdle /\ DDIdle /\ STIdle /\ APIdle

-----------------------------------------------------------------------------
(* RateLimiter.execute as a state machine.                                 *)

RLInit ==
    /\ ai_provider = "none"
    /\ outputs = {}
    /\ PLIdle
    /\ FNIdle
    /\ rl_pc = "loop"
    /\ api_name \in CONFIGS \cup {"unknown"}
    /\ max_retries \in 0..MaxRetriesArg
    /\ attempt = 0
    /\ last_error = NoCall
    /\ wait_time = 0
    /\ rl_result = NoResult
    /\ last_call = NoCall
    /\ acquires = 0
    /\ invocations = 0
    /\ sleeps = 0
    /\ all_retryable = TRUE
    /\ last_429 = NoneF

\* The head of the for loop, and what follows the loop when it runs out.
LoopHead ==
    /\ rl_pc = "loop"
    /\ IF InLoopRange(attempt, max_retries)
         THEN /\ rl_pc' = "acquire"
              /\ rl_result' = rl_result
         ELSE /\ rl_pc' = "done"
              /\ rl_result' = IF last_error # NoCall
                                THEN Raised(last_error)
                                ELSE Raised(OtherError("RuntimeError"))
    /\ UNCHANGED <<api_name, max_retries, attempt, last_error, wait_time, last_call,
                   acquires, invocations, sleeps, all_retryable, last_429, pl_vars, fn_vars>>

\* await self.acquire(api_name): ValueError for an unregistered api, a token
\* otherwise.  The ValueError is caught by neither except clause.
Acquire ==
    /\ rl_pc = "acquire"
    /\ IF api_name \in CONFIGS
         THEN /\ acquires' = acquires + TokensTaken(attempt)
              /\ rl_pc' = "call"
              /\ rl_result' = rl_result
         ELSE /\ acquires' = acquires
              /\ rl_pc' = "done"
              /\ rl_result' = Raised(OtherError("ValueError"))
    /\ UNCHANGED <<api_name, max_retries, attempt, last_error, wait_time, last_call,
                   invocations, sleeps, all_retryable, last_429, pl_vars, fn_vars>>

\* The retry branch shared by the three except arms: sleep wait, remember
\* the error, go round the loop.
Retry(c, wait) ==
    /\ wait_time' = wait
    /\ sleeps' = sleeps + 1
    /\ last_error' = c
    /\ attempt' = attempt + 1
    /\ rl_pc' = "loop"
    /\ rl_result' = rl_result

\* An arm that leaves execute by raising.
Raise(r) ==
    /\ rl_result' = r
    /\ rl_pc' = "done"
    /\ UNCHANGED <<wait_time, sleeps, last_error, attempt>>

\* result = await func(*args, **kwargs), and the except clauses.
Call(c, jitter) ==
    /\ rl_pc = "call"
    /\ invocations' = invocations + 1
    /\ last_call' = c
    /\ all_retryable' = (all_retryable /\ IsRetryable(c))
    /\ last_429' = IF c.kind = "HTTPStatusError" /\ c.status = 429
                     THEN SomeF(c.header) ELSE last_429
    /\ CASE c.kind = "ok" ->
              /\ rl_result' = Returned(c)
              /\ rl_pc' = "done"
              /\ UNCHANGED <<wait_time, sleeps, last_error, attempt>>
         [] c.kind = "HTTPStatusError" /\ c.status = 429 ->
              LET retry_after == ParseRetryAfter(c.header)
              IN  IF attempt < max_retries
                    THEN Retry(c, CalculateBackoff(attempt, retry_after, jitter))
                    ELSE Raise(RateLimitError(retry_after))
         [] c.kind = "HTTPStatusError" /\ c.status # 429 /\ IsServerError(c.status) ->
              IF attempt < max_retries
                THEN Retry(c, CalculateBackoff(attempt, NoneF, jitter))
                ELSE Raise(Raised(c))
         [] c.kind = "HTTPStatusError" /\ c.status # 429 /\ ~IsServerError(c.status) ->
              Raise(Raised(c))
         [] IsNetworkError(c) ->
              IF attempt < max_retries
                THEN Retry(c, CalculateBackoff(attempt, NoneF, jitter))
                ELSE Raise(Raised(c))
         [] OTHER ->
              Raise(Raised(c))
    /\ UNCHANGED <<api_name, max_retries, acquires, pl_vars, fn_vars>>

Invoke == \E c \in CallOutcomes, j \in Jitters : Call(c, j)

RLNext == LoopHead \/ Acquire \/ Invoke

\* The event loop runs execute's coroutine on; a bucket refills with time,
\* so every acquire is granted.
SpecRL == RLInit /\ [][RLNext]_vars /\ WF_vars(RLNext)

-----------------------------------------------------------------------------
(* Pipeline.run and its callers as a state machine.                        *)

RLIdle ==
    /\ rl_pc = "done"
    /\ api_name = "unknown"
    /\ max_retries = 0
    /\ attempt = 0
    /\ last_error = NoCall
    /\ wait_time = 0
    /\ rl_result = NoResult
    /\ last_call = NoCall
    /\ acquires = 0
    /\ invocations = 0
    /\ sleeps = 0
    /\ all_retryable = TRUE
    /\ last_429 = NoneF

\* providers/factory.py: the constructors registered at import time.
RegisteredProviders == {"gemini", "openai"}

\* get_ai_provider() returns a provider.  It raises AIProviderError for a
\* name config.py accepts and the factory does not know ("claude"), and
\* for a constructor that raises ("none").
ProviderCreated == ai_provider \in RegisteredProviders

Init ==
    /\ ai_provider \in RegisteredProviders \cup {"claude", "none"}
    /\ outputs \in SUBSET Channels
    /\ PLIdle
    /\ RLIdle
    /\ FNIdle

\* run_pipeline: a new Pipeline object, and the first lines of run().
StartRun(who, id) ==
    /\ trigger' = who
    /\ run_id' = id
    /\ runs_started' = id
    /\ stats' = ZeroStats
    /\ raw_items' = <<>>
    /\ normalized_items' = <<>>
    /\ idx' = 1
    /\ digest_items' = <<>>
    /\ exc' = NoExc
    /\ run_result' = "none"
    /\ summary_failures' = {}
    /\ channel_failures' = {}
    /\ collector_failures' = {}
    /\ collector_returns' = NoReturns
    /\ requests' = {}
    /\ pc' = "load_watchlist"
    /\ UNCHANGED <<ai_provider, outputs, news_items, analysis_results,
                   sess_news, sess_analysis, delivery_logs, rl_vars, fn_vars>>

\* POST /jobs/run: set_run_id(), crud.create_pipeline_run(status="running"),
\* then run_pipeline(run_id=...) as a background task.
TriggerApi ==
    /\ pc \in {"idle", "done"}
    /\ runs_started < MaxRuns
    /\ LET id == runs_started + 1
       IN  /\ pipeline_runs' = [pipeline_runs EXCEPT ![id] =
                  [exists |-> TRUE, status |-> "running",
                   stats |-> ZeroStats, error_log |-> ""]]
           /\ StartRun("api", id)

\* cli.main_async: set_run_id(), then run_pipeline(run_id=...); no
\* PipelineRun row is created.
TriggerCli ==
    /\ pc \in {"idle", "done"}
    /\ runs_started < MaxRuns
    /\ pipeline_runs' = pipeline_runs
    /\ StartRun("cli", runs_started + 1)

\* run() called again on the Pipeline object of the finished run: the
\* locals of run() start afresh, self.stats (set in __init__ only) keeps
\* the counts of the earlier run, and no PipelineRun row is created.
RunAgain ==
    /\ pc = "done"
    /\ runs_started < MaxRuns
    /\ run_id' = runs_started + 1
    /\ runs_started' = runs_started + 1
    /\ raw_items' = <<>>
    /\ normalized_items' = <<>>
    /\ idx' = 1
    /\ digest_items' = <<>>
    /\ exc' = NoExc
    /\ run_result' = "none"
    /\ summary_failures' = {}
    /\ channel_failures' = {}
    /\ collector_failures' = {}
    /\ collector_returns' = NoReturns
    /\ requests' = {}
    /\ pc' = "load_watchlist"
    /\ UNCHANGED <<ai_provider, outputs, pipeline_runs, news_items, analysis_results,
                   sess_news, sess_analysis, trigger, stats, delivery_logs, rl_vars, fn_vars>>

\* A stage raised: control passes to run()'s except clause with e.
RaiseTo(e) ==
    /\ exc' = e
    /\ pc' = "except"

\* Step 1: _load_watchlist.
LoadWatchlist(ok) ==
    /\ pc = "load_watchlist"
    /\ IF ok THEN pc' = "collect" /\ exc' = exc
             ELSE RaiseTo(WatchlistError)
    /\ UNCHANGED <<ai_provider, outputs, pipeline_runs, news_items, analysis_results,
                   sess_news, sess_analysis, trigger, run_id, runs_started, stats,
                   raw_items, normalized_items, idx, digest_items, run_result,
                   summary_failures, channel_failures, requests,
                   collector_failures, collector_returns, delivery_logs, rl_vars, fn_vars>>

\* A variant of AllItems in which one collector's failure discards the
\* other collector's items.
AllOrNothing(finnhub_ok, finnhub, sec_ok, sec) ==
    IF finnhub_ok /\ sec_ok THEN finnhub \o sec ELSE <<>>

\* _collect_news: all_items.extend(items) for each collector that returned;
\* a collector that raised contributes nothing.
AllItems(finnhub_ok, finnhub, sec_ok, sec) ==
    (IF finnhub_ok THEN finnhub ELSE <<>>) \o (IF sec_ok THEN sec ELSE <<>>)

\* Step 3: _collect_news.  Each collector either returns its batch or
\* raises; a raise is logged and the other collector still runs.
CollectNews(finnhub_ok, finnhub, sec_ok, sec) ==
    /\ pc = "collect"
    /\ raw_items' = AllItems(finnhub_ok, finnhub, sec_ok, sec)
    /\ stats' = [stats EXCEPT !.raw_collected =
                     Len(AllItems(finnhub_ok, finnhub, sec_ok, sec))]
    /\ collector_failures' = {c \in {"finnhub"} : ~finnhub_ok}
                                 \cup {c \in {"sec"} : ~sec_ok}
    /\ collector_returns' = [finnhub |-> IF finnhub_ok THEN finnhub ELSE <<>>,
                             sec |-> IF sec_ok THEN sec ELSE <<>>]
    /\ requests' = requests \cup {CollectorRequest("finnhub"), CollectorRequest("sec")}
    /\ pc' = "process"
    /\ UNCHANGED <<ai_provider, outputs, pipeline_runs, news_items, analysis_results,
                   sess_news, sess_analysis, trigger, run_id, runs_started,
                   normalized_items, idx, digest_items, exc, run_result,
                   summary_failures, channel_failures, delivery_logs, rl_vars, fn_vars>>

\* Step 4: DataProcessor.process, and the two counters set from its result
\* (limit_per_ticker is None).
Process(ok) ==
    /\ pc = "process"
    /\ IF ok
         THEN /\ normalized_items' = UrlDedup(raw_items)
              /\ stats' = [stats EXCEPT !.after_normalize = Len(UrlDedup(raw_items)),
                                        !.after_dedup = Len(UrlDedup(raw_items))]
              /\ pc' = "analyze"
              /\ exc' = exc
         ELSE /\ RaiseTo(ProcessError)
              /\ UNCHANGED <<normalized_items, stats>>
    /\ raw_items' = <<>>    \* raw_items is not read again
    /\ collector_returns' = NoReturns
    /\ UNCHANGED <<ai_provider, outputs, pipeline_runs, news_items, analysis_results,
                   sess_news, sess_analysis, trigger, run_id, runs_started,
                   idx, digest_items, run_result,
                   summary_failures, channel_failures, requests,
                   collector_failures, delivery_logs, rl_vars, fn_vars>>

\* A variant of DigestWithoutAnalysis that returns no DigestItem.
NoDigestItems(items) == <<>>

\* The except branch of _analyze_and_save: one DigestItem(news=news_create,
\* analysis=None) per normalized item, in order.
DigestWithoutAnalysis(items) ==
    [i \in 1..Len(items) |-> [url |-> items[i], analyzed |-> FALSE]]

\* Step 5 without a provider: get_ai_provider() raised; every item is
\* written with no existence check and the session is committed.  A
\* database error leaves the stage through run()'s except clause.
AnalyzeWithoutProvider(db_ok) ==
    /\ pc = "analyze"
    /\ ~ProviderCreated
    /\ IF db_ok
         THEN /\ news_items' = [u \in Urls |->
                    news_items[u] + Cardinality({i \in 1..Len(normalized_items) :
                                                   normalized_items[i] = u})]
              /\ digest_items' = DigestWithoutAnalysis(normalized_items)
              /\ idx' = Len(normalized_items) + 1
              /\ pc' = "summaries"
              /\ exc' = exc
         ELSE /\ RaiseTo(DbError)
              /\ UNCHANGED <<news_items, digest_items, idx>>
    /\ UNCHANGED <<ai_provider, outputs, pipeline_runs, analysis_results,
                   sess_news, sess_analysis, trigger, run_id, runs_started, stats,
                   raw_items, normalized_items, run_result,
                   summary_failures, channel_failures, requests,
                   collector_failures, collector_returns, delivery_logs, rl_vars, fn_vars>>

\* A variant of CloseUncommitted in which the flushed rows stay.
CloseKeepsFlushed(store, flushed) == [u \in Urls |-> store[u] + flushed[u]]

\* Leaving `async with async_session_maker() as db` through an exception:
\* the session is closed without a commit and its flushed rows are gone.
CloseUncommitted(store, flushed) == store

\* Step 5 with a provider: one pass of the loop over normalized_items.
\*   "db_error" is an exception of get_news_item_by_url / create_raw_item /
\*              create_news_item, which leaves the stage (the session is
\*              closed uncommitted);
\*   "skip"     is taken exactly when the url already has a NewsItem;
\*   "analyzed" and "analysis_raised" are the two ends of the inner try.
AnalyzeItem(outcome) ==
    /\ pc = "analyze"
    /\ ProviderCreated
    /\ idx <= Len(normalized_items)
    /\ LET u == normalized_items[idx]
       IN  CASE outcome = "db_error" ->
                  /\ RaiseTo(DbError)
                  /\ news_items' = CloseUncommitted(news_items, sess_news)
                  /\ sess_news' = [v \in Urls |-> 0]
                  /\ sess_analysis' = {}
                  /\ UNCHANGED <<idx, stats, digest_items, requests>>
             [] outcome = "skip" ->
                  /\ ExistingNewsItem(u)
                  /\ idx' = idx + 1
                  /\ UNCHANGED <<news_items, sess_news, sess_analysis, stats,
                                 digest_items, exc, pc, requests>>
             [] outcome = "analyzed" ->
                  /\ ~ExistingNewsItem(u)
                  /\ sess_news' = [sess_news EXCEPT ![u] = @ + 1]
                  /\ sess_analysis' = sess_analysis \cup {u}
                  /\ stats' = [stats EXCEPT !.analyzed_success = @ + 1]
                  /\ digest_items' = DigestAfterSuccess(digest_items, u)
                  /\ requests' = requests \cup {ProviderRequest(ai_provider)}
                  /\ idx' = idx + 1
                  /\ UNCHANGED <<news_items, exc, pc>>
             [] outcome = "analysis_raised" ->
                  /\ ~ExistingNewsItem(u)
                  /\ sess_news' = [sess_news EXCEPT ![u] = @ + 1]
                  /\ sess_analysis' = sess_analysis
                  /\ stats' = [stats EXCEPT !.analyzed_failed = @ + 1]
                  /\ digest_items' = DigestAfterFailure(digest_items, u)
                  /\ requests' = requests \cup {ProviderRequest(ai_provider)}
                  /\ idx' = idx + 1
                  /\ UNCHANGED <<news_items, exc, pc>>
             [] OTHER -> FALSE
    /\ UNCHANGED <<ai_provider, outputs, pipeline_runs, analysis_results,
                   trigger, run_id, runs_started, raw_items, normalized_items,
                   run_result, summary_failures, channel_failures,
                   collector_failures, collector_returns, delivery_logs, rl_vars, fn_vars>>

\* await db.commit() after the loop.
AnalyzeCommit(db_ok) ==
    /\ pc = "analyze"
    /\ ProviderCreated
    /\ idx > Len(normalized_items)
    /\ IF db_ok
         THEN /\ news_items' = [u \in Urls |-> news_items[u] + sess_news[u]]
              /\ analysis_results' = analysis_results \cup sess_analysis
              /\ pc' = "summaries"
              /\ exc' = exc
         ELSE /\ RaiseTo(DbError)
              /\ UNCHANGED <<news_items, analysis_results>>
    /\ sess_news' = [u \in Urls |-> 0]
    /\ sess_analysis' = {}
    /\ UNCHANGED <<ai_provider, outputs, pipeline_runs, trigger, run_id, runs_started,
                   stats, raw_items, normalized_items, idx, digest_items, run_result,
                   summary_failures, channel_failures, requests,
                   collector_failures, collector_returns, delivery_logs, rl_vars, fn_vars>>

\* Step 6: _generate_ticker_summaries, then the Digest is built.  With a
\* provider each ticker's generate_ticker_summary may raise (failed); the
\* ticker then gets the counting summary.  Nothing is raised to run().
GenerateTickerSummaries(failed) ==
    /\ pc = "summaries"
    /\ LET by_ticker == {TickerOf(digest_items[i].url) : i \in 1..Len(digest_items)}
       IN  IF by_ticker = {} \/ ~ProviderCreated
             THEN /\ failed = {}
                  /\ requests' = requests
             ELSE /\ failed \subseteq by_ticker
                  /\ requests' = requests \cup {ProviderRequest(ai_provider)}
    /\ summary_failures' = failed
    /\ pc' = "deliver_notion"
    /\ UNCHANGED <<ai_provider, outputs, pipeline_runs, news_items, analysis_results,
                   sess_news, sess_analysis, trigger, run_id, runs_started, stats,
                   raw_items, normalized_items, idx, digest_items, exc, run_result,
                   channel_failures,
                   collector_failures, collector_returns, delivery_logs, rl_vars, fn_vars>>

\* Step 7a: if "notion" in settings.outputs: _deliver_to_notion, which
\* catches every exception of the delivery.
DeliverToNotion(ok) ==
    /\ pc = "deliver_notion"
    /\ IF "notion" \in outputs
         THEN /\ requests' = requests \cup NotionRequests
              /\ delivery_logs' = NotionDeliveryLogged(delivery_logs, run_id, ok)
              /\ IF ok
                   THEN /\ stats' = [stats EXCEPT !.delivered = @ + 1]
                        /\ channel_failures' = channel_failures
                   ELSE /\ stats' = stats
                        /\ channel_failures' = channel_failures \cup {"notion"}
         ELSE /\ ok
              /\ UNCHANGED <<requests, stats, channel_failures, delivery_logs>>
    /\ pc' = "deliver_markdown"
    /\ UNCHANGED <<ai_provider, outputs, pipeline_runs, news_items, analysis_results,
                   sess_news, sess_analysis, trigger, run_id, runs_started,
                   raw_items, normalized_items, idx, digest_items, exc, run_result,
                   summary_failures,
                   collector_failures, collector_returns, rl_vars, fn_vars>>

\* Step 7b: if "markdown" in settings.outputs: _deliver_to_markdown, which
\* writes no DeliveryLog.
DeliverToMarkdown(ok) ==
    /\ pc = "deliver_markdown"
    /\ IF "markdown" \in outputs
         THEN IF ok
                THEN /\ stats' = [stats EXCEPT !.delivered = @ + 1]
                     /\ channel_failures' = channel_failures
                ELSE /\ stats' = stats
                     /\ channel_failures' = channel_failures \cup {"markdown"}
         ELSE /\ ok
              /\ UNCHANGED <<stats, channel_failures>>
    /\ pc' = "finalize"
    /\ UNCHANGED <<ai_provider, outputs, pipeline_runs, news_items, analysis_results,
                   sess_news, sess_analysis, trigger, run_id, runs_started,
                   raw_items, normalized_items, idx, digest_items, exc, run_result,
                   summary_failures, requests,
                   collector_failures, collector_returns, delivery_logs, rl_vars, fn_vars>>

\* await self._update_pipeline_run(run_id, "success"); return digest
Finalize ==
    /\ pc = "finalize"
    /\ pipeline_runs' = UpdatePipelineRunRow(pipeline_runs, run_id, "success", stats, "")
    /\ run_result' = "digest"
    /\ pc' = "done"
    /\ UNCHANGED <<ai_provider, outputs, news_items, analysis_results,
                   sess_news, sess_analysis, trigger, run_id, runs_started, stats,
                   raw_items, normalized_items, idx, digest_items, exc,
                   summary_failures, channel_failures, requests,
                   collector_failures, collector_returns, delivery_logs, rl_vars, fn_vars>>

\* except Exception as e: _update_pipeline_run(run_id, "failed", str(e)); raise
HandleException ==
    /\ pc = "except"
    /\ pipeline_runs' =
           UpdatePipelineRunRow(pipeline_runs, run_id, "failed", stats, Str(exc))
    /\ run_result' = "raised"
    /\ pc' = "done"
    /\ UNCHANGED <<ai_provider, outputs, news_items, analysis_results,
                   sess_news, sess_analysis, trigger, run_id, runs_started, stats,
                   raw_items, normalized_items, idx, digest_items, exc,
                   summary_failures, channel_failures, requests,
                   collector_failures, collector_returns, delivery_logs, rl_vars, fn_vars>>

Next ==
    \/ TriggerApi
    \/ TriggerCli
    \/ \E ok \in BOOLEAN : LoadWatchlist(ok)
    \/ \E f_ok \in BOOLEAN, s_ok \in BOOLEAN, f \in CollectorBatches, s \in SecBatches :
           CollectNews(f_ok, f, s_ok, s)
    \/ \E ok \in BOOLEAN : Process(ok)
    \/ \E ok \in BOOLEAN : AnalyzeWithoutProvider(ok)
    \/ \E o \in {"skip", "db_error", "analyzed", "analysis_raised"} : AnalyzeItem(o)
    \/ \E ok \in BOOLEAN : AnalyzeCommit(ok)
    \/ \E failed \in SUBSET {"NVDA", "AMD"} : GenerateTickerSummaries(failed)
    \/ \E ok \in BOOLEAN : DeliverToNotion(ok)
    \/ \E ok \in BOOLEAN : DeliverToMarkdown(ok)
    \/ Finalize
    \/ HandleException

Spec == Init /\ [][Next]_vars

\* The same program when a caller may also keep the Pipeline object and
\* call run() on it again.
NextReuse ==
    \/ Next
    \/ RunAgain

SpecReuse == Init /\ [][NextReuse]_vars

-----------------------------------------------------------------------------
(* BaseAIProvider.analyze as a state machine.                              *)

\* The pipeline and the rate limiter at rest.
OthersIdle ==
    /\ ai_provider = "none"
    /\ outputs = {}
    /\ PLIdle
    /\ RLIdle

ANInit ==
    /\ OthersIdle
    /\ CUIdle
    /\ DDIdle
    /\ STIdle
    /\ APIdle
    /\ an_pc = "first"
    /\ pydantic_strict \in BOOLEAN
    /\ an_title \in Titles
    /\ an_calls = <<>>
    /\ an_result = NoAnalysis

\* A call whose provider raised carries no response.
MadeCall(prompt, ok, resp, tokens, cost) ==
    IF ok THEN ApiCall(prompt, TRUE, resp, tokens, cost)
          ELSE ApiCall(prompt, FALSE, [shape |-> "not_json", doc |-> GoodDoc], 0, 0)

\* The first try block: _call_api(prompt), _parse_and_validate.  A
\* ValidationError leads to the repair; any other exception is wrapped in
\* AIAnalysisError by the outer except clause.
FirstAttempt(ok, resp, tokens, cost) ==
    /\ an_pc = "first"
    /\ an_calls' = Append(an_calls, MadeCall(Prompt, ok, resp, tokens, cost))
    /\ LET parsed == ParseAndValidate(resp, pydantic_strict)
       IN  IF ~ok
             THEN /\ an_result' = AnalysisRaised("AIAnalysisError")
                  /\ an_pc' = "done"
             ELSE CASE parsed.kind = "doc" ->
                         /\ an_result' = AnalysisReturned(parsed.doc, tokens, cost)
                         /\ an_pc' = "done"
                    [] parsed.kind = "ValidationError" ->
                         /\ an_result' = an_result
                         /\ an_pc' = "repair"
                    [] OTHER ->
                         /\ an_result' = AnalysisRaised("AIAnalysisError")
                         /\ an_pc' = "done"
    /\ UNCHANGED <<pydantic_strict, an_title, rl_vars, pl_vars, cu_vars, dd_vars, st_vars, ap_vars>>

\* The try block inside `except ValidationError`: the strict prompt, the
\* second _call_api, _parse_and_validate.  A second ValidationError gives
\* the fallback record; any other exception raised here is inside an except
\* clause and leaves analyze as it is.
RepairAttempt(ok, resp, tokens, cost) ==
    /\ an_pc = "repair"
    /\ LET first == an_calls[1]
           strict_prompt == MakeStrictPrompt(first.prompt)
           parsed == ParseAndValidate(resp, pydantic_strict)
           tokens_sum == BothCalls(first.tokens, tokens)
           cost_sum == BothCalls(first.cost, cost)
       IN  /\ an_calls' = Append(an_calls, MadeCall(strict_prompt, ok, resp, tokens, cost))
           /\ an_result' =
                IF ~ok THEN AnalysisRaised("ProviderError")
                ELSE CASE parsed.kind = "doc" ->
                            AnalysisReturned(parsed.doc, tokens_sum, cost_sum)
                       [] parsed.kind = "ValidationError" ->
                            AnalysisReturned(FallbackResult(an_title), tokens_sum, cost_sum)
                       [] OTHER -> AnalysisRaised(parsed.kind)
    /\ an_pc' = "done"
    /\ UNCHANGED <<pydantic_strict, an_title, rl_vars, pl_vars, cu_vars, dd_vars, st_vars, ap_vars>>

FirstCall ==
    \E ok \in BOOLEAN, resp \in Responses, t \in 1..MaxTokens, c \in CallCosts :
        FirstAttempt(ok, resp, t, c)

RepairCall ==
    \E ok \in BOOLEAN, resp \in Responses, t \in 1..MaxTokens, c \in CallCosts :
        RepairAttempt(ok, resp, t, c)

ANNext == FirstCall \/ RepairCall

SpecAN == ANInit /\ [][ANNext]_vars

-----------------------------------------------------------------------------
(* Deduplicator.canonicalize_url applied to chosen urls.                   *)

CUInit ==
    /\ OthersIdle
    /\ ANIdle
    /\ DDIdle
    /\ STIdle
    /\ APIdle
    /\ cu_pc = "input"
    /\ cu_url \in InputUrls
    /\ cu_tracked = cu_url
    /\ cu_added = 0
    /\ cu_out = NoUrls

\* The caller's url gets one more tracking parameter, at any place of its
\* query.
AddTracking(k, v, pos) ==
    /\ cu_pc = "input"
    /\ cu_url # EmptyUrl
    /\ cu_added < MaxAdded
    /\ pos \in 0..Len(cu_tracked.query)
    /\ cu_tracked' = [cu_tracked EXCEPT !.query =
            SubSeq(@, 1, pos) \o <<[k |-> k, v |-> v]>> \o SubSeq(@, pos + 1, Len(@))]
    /\ cu_added' = cu_added + 1
    /\ UNCHANGED <<cu_pc, cu_url, cu_out, rl_vars, pl_vars, an_vars, dd_vars, st_vars, ap_vars>>

\* canonicalize_url(u), canonicalize_url of that result, and
\* canonicalize_url(u with the tracking parameters).
Canonicalize ==
    /\ cu_pc = "input"
    /\ cu_out' = [c1 |-> CanonicalizeUrl(cu_url),
                  c2 |-> CanonicalizeUrl(CanonicalizeUrl(cu_url)),
                  c3 |-> CanonicalizeUrl(cu_tracked)]
    /\ cu_pc' = "done"
    /\ UNCHANGED <<cu_url, cu_tracked, cu_added, rl_vars, pl_vars, an_vars, dd_vars, st_vars, ap_vars>>

\* Tracking parameter names as callers add them: listed names, upper case,
\* and a utm_ name.
AddedKeys == {"fbclid", "UTM_MEDIUM", "utm_id"}

CUNext ==
    \/ \E k \in AddedKeys, pos \in 0..(MaxQueryLen + MaxAdded) : AddTracking(k, "x", pos)
    \/ Canonicalize

SpecCU == CUInit /\ [][CUNext]_vars

-----------------------------------------------------------------------------
(* Deduplicator.deduplicate applied to chosen lists.                       *)

\* The normalized titles a SimHash is computed of.
HashedTitles == {NormalizeTitle(x.title) : x \in InputItems} \ {<<>>}

\* The build and the threshold: without simhash the Jaccard fallback with a
\* threshold of 0.5 or 0.85; with simhash any outcome of the comparison of two
\* different titles.
DDInit ==
    /\ OthersIdle
    /\ ANIdle
    /\ CUIdle
    /\ STIdle
    /\ APIdle
    /\ dd_pc = "stage1"
    /\ simhash_available \in BOOLEAN
    /\ IF simhash_available
         THEN /\ similarity_threshold = 85
              /\ simhash_similar \in
                    SUBSET {p \in SUBSET HashedTitles : Cardinality(p) = 2}
         ELSE /\ similarity_threshold \in {50, 85}
              /\ simhash_similar = {}
    /\ dd_input \in SeqsUpTo(InputItems, MaxItems)
    /\ dd_items = [i \in 1..Len(dd_input) |-> i]
    /\ dd_clusters = <<>>
    /\ dd_merged = {}
    /\ dd_result = NoDedupResult

\* items, clusters after a stage
AfterStage(out) ==
    /\ dd_items' = out.items
    /\ dd_clusters' = dd_clusters \o out.clusters
    /\ dd_merged' = dd_merged \cup out.merged

\* if not items: return DedupResult(kept_items=[], removed_count=0)
ReturnEmpty ==
    /\ dd_pc = "stage1"
    /\ dd_input = <<>>
    /\ dd_result' = DedupResult(<<>>, 0, <<>>)
    /\ dd_pc' = "done"
    /\ UNCHANGED <<simhash_available, simhash_similar, similarity_threshold, dd_input,
                   dd_items, dd_clusters, dd_merged, rl_vars, pl_vars, an_vars, cu_vars, st_vars, ap_vars>>

\* Stage 1
UrlDedupStage ==
    /\ dd_pc = "stage1"
    /\ dd_input # <<>>
    /\ AfterStage(Stage1UrlDedup(dd_input, dd_items))
    /\ dd_pc' = "stage2"
    /\ UNCHANGED <<simhash_available, simhash_similar, similarity_threshold, dd_input,
                   dd_result, rl_vars, pl_vars, an_vars, cu_vars, st_vars, ap_vars>>

\* Stage 2
HashDedupStage ==
    /\ dd_pc = "stage2"
    /\ AfterStage(Stage2HashDedup(dd_input, dd_items))
    /\ dd_pc' = "stage3"
    /\ UNCHANGED <<simhash_available, simhash_similar, similarity_threshold, dd_input,
                   dd_result, rl_vars, pl_vars, an_vars, cu_vars, st_vars, ap_vars>>

\* Stage 3 and the return
SimilarityDedupStage ==
    /\ dd_pc = "stage3"
    /\ LET out == Stage3SimilarityDedup(dd_input, dd_items)
       IN  /\ AfterStage(out)
           /\ dd_result' = DedupResult(
                  [k \in 1..Len(out.items) |-> dd_input[out.items[k]]],
                  RemovedCount(Len(dd_input), out.items),
                  dd_clusters \o out.clusters)
    /\ dd_pc' = "done"
    /\ UNCHANGED <<simhash_available, simhash_similar, similarity_threshold, dd_input,
                   rl_vars, pl_vars, an_vars, cu_vars, st_vars, ap_vars>>

DDNext == ReturnEmpty \/ UrlDedupStage \/ HashDedupStage \/ SimilarityDedupStage

SpecDD == DDInit /\ [][DDNext]_vars

-----------------------------------------------------------------------------
(* Normalizer._normalize_item applied to chosen items, and the row made of  *)
(* its result.                                                             *)

NZInit ==
    /\ OthersIdle
    /\ ANIdle
    /\ CUIdle
    /\ DDIdle
    /\ APIdle
    /\ LTIdle
    /\ COIdle
    /\ nz_pc = "input"
    /\ nz_raw \in NormalizerInputs
    /\ nz_now \in {"2024-01-15", "2024-01-16"}
    /\ nz_news = <<>>
    /\ nz_row = <<>>

\* raw_create, news_create = self._normalize_item(raw)
NormalizeOne ==
    /\ nz_pc = "input"
    /\ nz_news' = NormalizeItem(nz_raw, nz_now)
    /\ nz_pc' = "normalized"
    /\ UNCHANGED <<nz_raw, nz_now, nz_row, lt_vars, co_vars,
                   rl_vars, pl_vars, an_vars, cu_vars, dd_vars, ap_vars>>

\* crud.create_news_item: NewsItem(**item.model_dump())
CreateNewsItem ==
    /\ nz_pc = "normalized"
    /\ nz_row' = nz_news
    /\ nz_pc' = "done"
    /\ UNCHANGED <<nz_raw, nz_now, nz_news, lt_vars, co_vars,
                   rl_vars, pl_vars, an_vars, cu_vars, dd_vars, ap_vars>>

NZNext == NormalizeOne \/ CreateNewsItem

SpecNZ == NZInit /\ [][NZNext]_vars

-----------------------------------------------------------------------------
(* The per-ticker limit applied to chosen lists.                           *)

LTInit ==
    /\ OthersIdle
    /\ ANIdle
    /\ CUIdle
    /\ DDIdle
    /\ APIdle
    /\ NZIdle
    /\ COIdle
    /\ lt_pc = "input"
    /\ limit_per_ticker \in 0..MaxLimit
    /\ lt_items \in SeqsUpTo(TickerLists, MaxLimitItems)
    /\ lt_kept = <<>>

\* Step 4.5
LimitItems ==
    /\ lt_pc = "input"
    /\ lt_kept' = ApplyLimit(lt_items, limit_per_ticker)
    /\ lt_pc' = "done"
    /\ UNCHANGED <<limit_per_ticker, lt_items, nz_vars, co_vars,
                   rl_vars, pl_vars, an_vars, cu_vars, dd_vars, ap_vars>>

LTNext == LimitItems

SpecLT == LTInit /\ [][LTNext]_vars

-----------------------------------------------------------------------------
(* A collector's collect() on chosen tickers and task results.             *)

\* A SEC response lists no accession number twice.
COInit ==
    /\ OthersIdle
    /\ ANIdle
    /\ CUIdle
    /\ DDIdle
    /\ APIdle
    /\ NZIdle
    /\ LTIdle
    /\ co_pc = "gather"
    /\ co_collector \in {"finnhub", "sec"}
    /\ co_tickers \in TickerArguments
    /\ co_results \in [1..Len(co_tickers) -> TaskResults]
    /\ co_collector = "sec" =>
          \A i \in 1..Len(co_tickers) :
             Cardinality(Range(co_results[i].ids)) = Len(co_results[i].ids)
    /\ co_out = <<>>

\* FinnhubNewsCollector.collect after the gather
CollectFinnhub ==
    /\ co_pc = "gather"
    /\ co_collector = "finnhub"
    /\ co_out' = FinnhubCollect(co_tickers, co_results, 1, <<>>)
    /\ co_pc' = "done"
    /\ UNCHANGED <<co_collector, co_tickers, co_results, nz_vars, lt_vars,
                   rl_vars, pl_vars, an_vars, cu_vars, dd_vars, ap_vars>>

\* SECFilingCollector.collect after the gather
CollectSec ==
    /\ co_pc = "gather"
    /\ co_collector = "sec"
    /\ co_out' = SecCollect(co_tickers, co_results, 1, <<>>)
    /\ co_pc' = "done"
    /\ UNCHANGED <<co_collector, co_tickers, co_results, nz_vars, lt_vars,
                   rl_vars, pl_vars, an_vars, cu_vars, dd_vars, ap_vars>>

CONext == CollectFinnhub \/ CollectSec

SpecCO == COInit /\ [][CONext]_vars

-----------------------------------------------------------------------------
(* RateLimitedClient.get as a state machine.                               *)

UAInit ==
    /\ OthersIdle
    /\ ANIdle
    /\ CUIdle
    /\ DDIdle
    /\ STIdle
    /\ WLIdle
    /\ THIdle
    /\ CCIdle
    /\ ua_class \in {"RateLimitedClient", "SECClient"}
    /\ ua_config \in {RateLimitConfig(r, u) : r \in BOOLEAN, u \in UserAgents \cup {NoneUA}}
    /\ ua_arg \in UserAgents \cup {NoneUA}
    /\ ua_setting \in UserAgents
    /\ ua_client = NoClient
    /\ ua_sent = <<>>

\* get(path): the client property builds the httpx client on first use,
\* then the request goes out through rate_limiter.execute.  Nothing on
\* this path looks at the user agent again.
Get ==
    /\ ua_class # "none"
    /\ Len(ua_sent) < MaxRequests
    /\ LET header == IF ua_class = "SECClient"
                       THEN SecClientHeader(ua_arg, ua_setting)
                       ELSE BaseClientHeader(ua_config)
           client == IF ua_client.built THEN ua_client
                     ELSE [built |-> TRUE, user_agent |-> header]
       IN  /\ ua_client' = client
           /\ ua_sent' = Append(ua_sent, SentUserAgent(client.user_agent))
    /\ UNCHANGED <<ua_class, ua_config, ua_arg, ua_setting,
                   rl_vars, pl_vars, an_vars, cu_vars, dd_vars, st_vars, ua_others>>

\* close(): the httpx client is closed and dropped.
Close ==
    /\ ua_class # "none"
    /\ ua_client.built
    /\ ua_client' = NoClient
    /\ UNCHANGED <<ua_class, ua_config, ua_arg, ua_setting, ua_sent,
                   rl_vars, pl_vars, an_vars, cu_vars, dd_vars, st_vars, ua_others>>

UANext == Get \/ Close

SpecUA == UAInit /\ [][UANext]_vars

-----------------------------------------------------------------------------
(* The watchlist API as a state machine: one action per endpoint; get_db   *)
(* commits when the endpoint returned and rolls back when it raised.       *)

WLInit ==
    /\ OthersIdle
    /\ ANIdle
    /\ CUIdle
    /\ DDIdle
    /\ STIdle
    /\ UAIdle
    /\ WLIdle
    /\ THIdle
    /\ CCIdle

\* The request is recorded with the table it met.
Arrives(req) ==
    /\ wl_req' = req
    /\ wl_before' = wl_rows

\* POST /api/watchlist
CreateWatchlistItemEndpoint(ticker, thesis) ==
    /\ Arrives(WatchlistRequest("POST", ticker, thesis))
    /\ LET item == [ticker |-> UppercaseTicker(ticker), thesis |-> thesis]
           existing == GetWatchlistItem(wl_rows, Upper(item.ticker))
       IN  IF existing # {}
             THEN /\ wl_resp' = 400
                  /\ wl_rows' = wl_rows
             ELSE /\ wl_resp' = 201
                  /\ wl_rows' = CreateWatchlistItem(wl_rows, item)
    /\ UNCHANGED <<rl_vars, pl_vars, an_vars, cu_vars, dd_vars, st_vars, wl_others>>

\* GET /api/watchlist/{ticker}
GetWatchlistItemEndpoint(ticker) ==
    /\ Arrives(WatchlistRequest("GET", ticker, "None"))
    /\ wl_resp' = IF GetWatchlistItem(wl_rows, PathTicker(ticker)) = {} THEN 404 ELSE 200
    /\ wl_rows' = wl_rows
    /\ UNCHANGED <<rl_vars, pl_vars, an_vars, cu_vars, dd_vars, st_vars, wl_others>>

\* PUT /api/watchlist/{ticker}
UpdateWatchlistItemEndpoint(ticker, thesis) ==
    /\ Arrives(WatchlistRequest("PUT", ticker, thesis))
    /\ IF GetWatchlistItem(wl_rows, PathTicker(ticker)) = {}
         THEN /\ wl_resp' = 404
              /\ wl_rows' = wl_rows
         ELSE /\ wl_resp' = 200
              /\ wl_rows' = UpdateWatchlistItem(wl_rows, PathTicker(ticker),
                                                [thesis |-> thesis])
    /\ UNCHANGED <<rl_vars, pl_vars, an_vars, cu_vars, dd_vars, st_vars, wl_others>>

\* DELETE /api/watchlist/{ticker}: 404 when result.rowcount is 0.
DeleteWatchlistItemEndpoint(ticker) ==
    /\ Arrives(WatchlistRequest("DELETE", ticker, "None"))
    /\ LET after == DeleteWatchlistItem(wl_rows, PathTicker(ticker))
       IN  IF after = wl_rows
             THEN /\ wl_resp' = 404
                  /\ wl_rows' = wl_rows
             ELSE /\ wl_resp' = 204
                  /\ wl_rows' = after
    /\ UNCHANGED <<rl_vars, pl_vars, an_vars, cu_vars, dd_vars, st_vars, wl_others>>

WLNext ==
    \/ \E t \in ClientTickers, th \in Theses : CreateWatchlistItemEndpoint(t, th)
    \/ \E t \in ClientTickers : GetWatchlistItemEndpoint(t)
    \/ \E t \in ClientTickers, th \in Theses : UpdateWatchlistItemEndpoint(t, th)
    \/ \E t \in ClientTickers : DeleteWatchlistItemEndpoint(t)

SpecWL == WLInit /\ [][WLNext]_vars

-----------------------------------------------------------------------------
(* The choice of thesis as a state machine.                                *)

THInit ==
    /\ OthersIdle
    /\ ANIdle
    /\ CUIdle
    /\ DDIdle
    /\ STIdle
    /\ UAIdle
    /\ WLIdle
    /\ CCIdle
    /\ th_pc = "input"
    /\ th_watchlist \in [Tickers -> ThesisEntries]
    /\ th_tickers \in TickerLists
    /\ th_thesis = ""

\* The lines of the analyze loop before provider.analyze(news_create, thesis).
ChooseThesis ==
    /\ th_pc = "input"
    /\ th_thesis' = SelectThesis(th_tickers, ThesisMap(th_watchlist), 1)
    /\ th_pc' = "done"
    /\ UNCHANGED <<th_watchlist, th_tickers,
                   rl_vars, pl_vars, an_vars, cu_vars, dd_vars, st_vars, th_others>>

THNext == ChooseThesis

SpecTH == THInit /\ [][THNext]_vars

-----------------------------------------------------------------------------
(* Two runs in _analyze_and_save at the same time.  Each has its own      *)
(* session; a session reads the committed rows and its own flushed rows.  *)
(* The steps of the two runs interleave at the awaits of the loop.        *)

CCInit ==
    /\ OthersIdle
    /\ ANIdle
    /\ CUIdle
    /\ DDIdle
    /\ STIdle
    /\ UAIdle
    /\ WLIdle
    /\ THIdle
    /\ cc_items \in [Runs -> CollectorBatches]
    /\ cc_idx = [r \in Runs |-> 1]
    /\ cc_pc = [r \in Runs |-> "check"]
    /\ cc_sess = [r \in Runs |-> [u \in Urls |-> 0]]
    /\ cc_store = [u \in Urls |-> 0]

\* existing = await crud.get_news_item_by_url(db, canonical_url); if
\* existing: continue.  After the last item the loop is left for the commit.
CheckExisting(r) ==
    /\ cc_pc[r] = "check"
    /\ IF cc_idx[r] > Len(cc_items[r])
         THEN /\ cc_pc' = [cc_pc EXCEPT ![r] = "commit"]
              /\ cc_idx' = cc_idx
         ELSE LET u == cc_items[r][cc_idx[r]]
              IN  IF cc_store[u] + cc_sess[r][u] > 0
                    THEN /\ cc_idx' = [cc_idx EXCEPT ![r] = @ + 1]
                         /\ cc_pc' = cc_pc
                    ELSE /\ cc_pc' = [cc_pc EXCEPT ![r] = "insert"]
                         /\ cc_idx' = cc_idx
    /\ UNCHANGED <<cc_items, cc_sess, cc_store,
                   rl_vars, pl_vars, an_vars, cu_vars, dd_vars, st_vars, cc_others>>

\* create_raw_item, create_news_item, the analysis, and on to the next
\* item; or the database refuses the write (the table is locked by the
\* other run's session) and the run leaves the stage uncommitted.
InsertNewsItem(r, db_ok) ==
    /\ cc_pc[r] = "insert"
    /\ IF db_ok
         THEN /\ cc_sess' = [cc_sess EXCEPT ![r][cc_items[r][cc_idx[r]]] = @ + 1]
              /\ cc_idx' = [cc_idx EXCEPT ![r] = @ + 1]
              /\ cc_pc' = [cc_pc EXCEPT ![r] = "check"]
         ELSE /\ cc_sess' = [cc_sess EXCEPT ![r] = [u \in Urls |-> 0]]
              /\ cc_idx' = cc_idx
              /\ cc_pc' = [cc_pc EXCEPT ![r] = "raised"]
    /\ UNCHANGED <<cc_items, cc_store,
                   rl_vars, pl_vars, an_vars, cu_vars, dd_vars, st_vars, cc_others>>

\* await db.commit()
CommitSession(r) ==
    /\ cc_pc[r] = "commit"
    /\ cc_store' = [u \in Urls |-> cc_store[u] + cc_sess[r][u]]
    /\ cc_sess' = [cc_sess EXCEPT ![r] = [u \in Urls |-> 0]]
    /\ cc_pc' = [cc_pc EXCEPT ![r] = "done"]
    /\ UNCHANGED <<cc_items, cc_idx,
                   rl_vars, pl_vars, an_vars, cu_vars, dd_vars, st_vars, cc_others>>

CCNext ==
    \E r \in Runs :
        \/ CheckExisting(r)
        \/ \E db_ok \in BOOLEAN : InsertNewsItem(r, db_ok)
        \/ CommitSession(r)

SpecCC == CCInit /\ [][CCNext]_vars

-----------------------------------------------------------------------------
(* Claims about Pipeline.run, checked under Spec.                          *)

Row == pipeline_runs[run_id]

RunOver == pc = "done"

\* A per-item analysis raised, a per-ticker summary failed, or an enabled
\* channel failed.
AnyFailure ==
    \/ stats.analyzed_failed > 0
    \/ summary_failures # {}
    \/ channel_failures # {}

\* C1: when run() produced a digest, the recorded status is success only if
\* no per-item analysis raised, no per-ticker summary failed and no enabled
\* channel failed, and it is partial if any of them failed.
C1_StatusTellsFailures ==
    (RunOver /\ run_result = "digest" /\ Row.exists) =>
        /\ (Row.status = "success" => ~AnyFailure)
        /\ (AnyFailure => Row.status = "partial")

\* C2: once run() has returned or raised, the store holds a PipelineRun row
\* for the run's id whose status is success, partial or failed.
C2_RunRowTerminal ==
    RunOver => /\ Row.exists
               /\ Row.status \in {"success", "partial", "failed"}

\* C3: if a stage raised before the digest was assembled, the PipelineRun
\* row is failed, its error_log is the string of that exception, run()
\* raised that same exception and returned no digest.
C3_FailureRecordedAndReraised ==
    (RunOver /\ exc # NoExc) =>
        /\ run_result = "raised"
        /\ Row.exists
        /\ Row.status = "failed"
        /\ Row.error_log = Str(exc)

\* C4: the store never holds two NewsItems with the same canonical_url,
\* with or without an AI provider.
C4_OneNewsItemPerUrl == \A u \in Urls : news_items[u] <= 1

PosIn(s, x) == CHOOSE i \in 1..Len(s) : s[i] = x

\* With a provider: the digest holds exactly the items counted in
\* analyzed_success and analyzed_failed, in input order, each of them
\* written to the store, the failed ones without an analysis.
C5_DigestCountsAnalyses ==
    (ProviderCreated /\ pc # "except" /\ run_result # "raised") =>
        /\ Len(digest_items) = stats.analyzed_success + stats.analyzed_failed
        /\ Cardinality({i \in 1..Len(digest_items) : ~digest_items[i].analyzed})
               = stats.analyzed_failed
        /\ \A i \in 1..Len(digest_items) :
               /\ digest_items[i].url \in Range(normalized_items)
               /\ news_items[digest_items[i].url] + sess_news[digest_items[i].url] > 0
               /\ digest_items[i].analyzed =
                      (digest_items[i].url \in analysis_results \cup sess_analysis)
        /\ \A i, j \in 1..Len(digest_items) :
               i < j => PosIn(normalized_items, digest_items[i].url)
                          < PosIn(normalized_items, digest_items[j].url)

\* One pass of the loop that stays in the loop: the next item is up, and
\* at most one of the two counters went up, by exactly one; after a raised
\* analysis the item is in the digest without analysis, and persisted.
C5_OnePass ==
    (pc = "analyze" /\ pc' = "analyze" /\ ProviderCreated) =>
        LET u == normalized_items[idx]
            ds == stats'.analyzed_success - stats.analyzed_success
            df == stats'.analyzed_failed - stats.analyzed_failed
        IN  /\ idx' = idx + 1
            /\ <<ds, df>> \in {<<0, 0>>, <<1, 0>>, <<0, 1>>}
            /\ df = 1 => /\ digest_items' = Append(digest_items,
                                                   [url |-> u, analyzed |-> FALSE])
                         /\ sess_news'[u] = sess_news[u] + 1
            /\ ds = 1 => /\ digest_items' = Append(digest_items,
                                                   [url |-> u, analyzed |-> TRUE])
                         /\ sess_news'[u] = sess_news[u] + 1
            /\ (ds = 0 /\ df = 0) => digest_items' = digest_items

\* C5: in the analyze loop with a provider, a raised analysis adds one to
\* analyzed_failed, keeps the item persisted and in the digest without
\* analysis, and the loop goes on in input order; a successful one adds one
\* to analyzed_success; the digest has analyzed_success + analyzed_failed
\* items.
C5_AnalysisFailureIsolated == []C5_DigestCountsAnalyses /\ [][C5_OnePass]_vars

\* A run in which the first item's analysis raised and the second item was
\* still analyzed, both persisted.
C5_Witness ==
    /\ RunOver /\ run_result = "digest" /\ ProviderCreated
    /\ Len(digest_items) = 2
    /\ ~digest_items[1].analyzed /\ digest_items[2].analyzed
    /\ stats.analyzed_failed = 1 /\ stats.analyzed_success = 1
    /\ news_items[digest_items[1].url] = 1

\* C10: every outbound API request of a run went through the rate
\* limiter: a token was acquired on the API's bucket before it.
C10_EveryRequestLimited == \A r \in requests : r.via_limiter

-----------------------------------------------------------------------------
(* Claims about RateLimiter.execute, checked under SpecRL.                 *)

ExecuteOver == rl_pc = "done"

C6_State ==
    /\ invocations <= max_retries + 1
    /\ acquires = invocations + (IF rl_pc = "call" THEN 1 ELSE 0)
    /\ rl_result.outcome = "returned" =>
           ExecuteOver /\ last_call = OkCall /\ rl_result.error = OkCall
    /\ ExecuteOver => rl_result.outcome \in {"returned", "raised"}

C6_NoCallAfterSuccess ==
    last_call.kind = "ok" => invocations' = invocations

\* C6: execute invokes the operation at most max_retries + 1 times, with a
\* token acquired before each invocation, never again after a success, and
\* it terminates, returning the successful result or raising.
C6_ExecuteBounded ==
    /\ []C6_State
    /\ [][C6_NoCallAfterSuccess]_vars
    /\ <>ExecuteOver

\* The default max_retries: three failures, then a success at the fourth
\* invocation.
C6_Witness ==
    /\ ExecuteOver /\ rl_result.outcome = "returned"
    /\ max_retries = DefaultMaxRetries
    /\ invocations = DefaultMaxRetries + 1 /\ acquires = DefaultMaxRetries + 1

\* C7: after a 429 with a Retry-After header (seconds or HTTP-date) and
\* retries left, the sleep before the next attempt is at least the
\* Retry-After delay.
C7_SleepHonoursRetryAfter ==
    (sleeps > 0 /\ last_error.kind = "HTTPStatusError" /\ last_error.status = 429
       /\ last_error.header.form \in {"seconds", "date"}) =>
        wait_time >= SecQ(last_error.header.delay)

\* C8: when every attempt failed with a retryable failure and the retries
\* are used up, execute raises RateLimitError carrying the Retry-After of
\* the last 429 response, if there was one.  (The value is compared for a
\* header given in seconds; the HTTP-date form is the subject of C7.)
C8_ExhaustionRaisesRateLimitError ==
    (ExecuteOver /\ invocations = max_retries + 1 /\ all_retryable) =>
        /\ rl_result.outcome = "raised"
        /\ rl_result.error.kind = "RateLimitError"
        /\ last_429.some /\ last_429.val.form = "seconds" =>
               /\ rl_result.retry_after.some
               /\ rl_result.retry_after.val = SecQ(last_429.val.delay)

\* A failure the claim calls non-retryable: a status outside
\* 429/500/502/503/504, or an exception that is no connect/timeout error.
C9_NotRetryable(c) ==
    \/ c.kind = "HTTPStatusError" /\ c.status \notin {429, 500, 502, 503, 504}
    \/ c.kind \notin {"none", "ok", "HTTPStatusError", "ConnectError", "TimeoutException"}

\* C9: a non-retryable failure of the operation leaves execute at once,
\* raised unchanged: the failing invocation is not repeated and no sleep
\* follows it (a first invocation that fails so is the only one).
C9_NonRetryablePropagates ==
    (invocations > 0 /\ C9_NotRetryable(last_call)) =>
        /\ ExecuteOver
        /\ rl_result = Raised(last_call)
        /\ invocations = attempt + 1
        /\ sleeps = attempt
        /\ attempt = 0 => invocations = 1 /\ sleeps = 0

\* A 404 at the first invocation, raised to the caller.
C9_Witness ==
    /\ ExecuteOver
    /\ last_call = HttpError(404, NoHeader)
    /\ rl_result = Raised(HttpError(404, NoHeader))
    /\ invocations = 1 /\ sleeps = 0

-----------------------------------------------------------------------------
(* Claims about BaseAIProvider.analyze, checked under SpecAN.              *)

AnalyzeOver == an_pc = "done"

\* A response that cannot be parsed as JSON, holds a provider error object,
\* or fails the schema.
InvalidResponse(resp) ==
    \/ resp.shape \in {"not_json", "error_object"}
    \/ ModelValidate(resp.doc).kind = "ValidationError"

\* C11: analyze calls the model at most twice; when the first response is
\* no JSON, holds an error object or fails the schema, exactly one repair
\* call follows, with the original prompt followed by the correction
\* clause; when the first response validates there is no second call.
C11_OneRepairCall ==
    /\ Len(an_calls) <= 2
    /\ \A i \in 1..Len(an_calls) :
           an_calls[i].prompt = IF i = 1 THEN Prompt ELSE MakeStrictPrompt(Prompt)
    /\ (AnalyzeOver /\ Len(an_calls) >= 1 /\ an_calls[1].ok) =>
           Len(an_calls) = IF InvalidResponse(an_calls[1].response) THEN 2 ELSE 1

\* C12: when the repair response fails validation too, analyze returns the
\* fallback record: other / neutral / short / unrelated / low, the reason
\* "Analysis failed, using fallback", the title cut to 100 characters as
\* summary, no key facts, an empty watch_next.
C12_FallbackAfterFailedRepair ==
    (AnalyzeOver /\ Len(an_calls) = 2 /\ an_calls[2].ok
       /\ InvalidResponse(an_calls[2].response)) =>
        /\ an_result.outcome = "returned"
        /\ an_result.doc =
             [event_type |-> "other", impact_direction |-> "neutral",
              impact_horizon |-> "short", thesis_relation |-> "unrelated",
              confidence |-> "low",
              confidence_reason |-> Text("Analysis failed, using fallback", 31),
              summary |-> Text(an_title.kind, Min(an_title.len, 100)),
              key_facts |-> <<>>,
              watch_next |-> NoText]

\* C13: the tokens and the cost analyze returns are the sums over the
\* model calls it made: the first call's alone, or first + repair, whether
\* the repair validated or ended in the fallback record.
C13_TokensAndCostSummed ==
    an_result.outcome = "returned" =>
        /\ Len(an_calls) \in {1, 2}
        /\ an_result.tokens =
             an_calls[1].tokens + (IF Len(an_calls) = 2 THEN an_calls[2].tokens ELSE 0)
        /\ an_result.cost =
             an_calls[1].cost + (IF Len(an_calls) = 2 THEN an_calls[2].cost ELSE 0)

\* EARNINGS in the first response, earnings in the repair response.
C13_Witness ==
    /\ AnalyzeOver /\ an_result.outcome = "returned" /\ Len(an_calls) = 2
    /\ an_calls[1].response.doc.event_type = "EARNINGS"
    /\ an_calls[2].response.shape = "json"
    /\ an_result.doc.event_type = "earnings"
    /\ an_result.tokens = an_calls[1].tokens + an_calls[2].tokens
    /\ an_calls[1].tokens # an_calls[2].tokens

\* C14: every analysis analyze returns, the fallback record too, has its
\* five enum fields inside their value sets, confidence_reason and summary
\* of at most 100 characters, watch_next of at most 50, and at most 3 key
\* facts of at most 200 characters each.
C14_ResultWithinSchema ==
    an_result.outcome = "returned" =>
        LET d == an_result.doc
        IN  /\ d.event_type \in {"earnings", "guidance", "regulatory", "contract",
                                 "product", "accident", "macro", "rumor", "other"}
            /\ d.impact_direction \in {"bullish", "bearish", "neutral"}
            /\ d.impact_horizon \in {"short", "medium", "long"}
            /\ d.thesis_relation \in {"supports", "weakens", "unrelated"}
            /\ d.confidence \in {"high", "medium", "low"}
            /\ d.confidence_reason.len <= 100
            /\ d.summary.len <= 100
            /\ d.watch_next.len <= 50
            /\ Len(d.key_facts) <= 3
            /\ \A i \in 1..Len(d.key_facts) : d.key_facts[i].len <= 200

\* A first response with an over-long key fact, returned cut to 200.
C14_Witness ==
    /\ AnalyzeOver /\ an_result.outcome = "returned" /\ Len(an_calls) = 1
    /\ Len(an_calls[1].response.doc.key_facts) = 1
    /\ an_calls[1].response.doc.key_facts[1].len = 201
    /\ an_result.doc.key_facts[1].len = 200

-----------------------------------------------------------------------------
(* Claims about Deduplicator.deduplicate, checked under SpecDD.            *)

DedupOver == dd_pc = "done"

\* Some positions of the input, taken in order, give kept.
IsSubSequence(kept, input) ==
    \E P \in SUBSET (1..Len(input)) : SeqAt(input, P) = kept

\* C15: for every input list, the empty one included, |kept| + removed_count
\* = |input|, removed_count >= 0, and kept is a sub-sequence of the input:
\* input items, each at most once, in their original order.
C15_CountsAndSubSequence ==
    DedupOver =>
        /\ Len(dd_result.kept_items) + dd_result.removed_count = Len(dd_input)
        /\ dd_result.removed_count >= 0
        /\ IsSubSequence(dd_result.kept_items, dd_input)

C15_Witness ==
    /\ DedupOver
    /\ Len(dd_input) = 3
    /\ dd_result.removed_count = 2
    /\ dd_result.kept_items = <<dd_input[1]>>

SameCanonicalUrl(a, b) == CanonicalizeUrl(a.url) = CanonicalizeUrl(b.url)
SameContentHash(a, b) == ComputeContentHash(a) = ComputeContentHash(b)

\* The merges of the method.
MergedPairs(method) == {e \in dd_merged : e.method = method}

\* C16: no cluster reported with method similarity holds a representative and
\* a member with the same canonical url or the same content hash.
C16_NoExactPairInSimilarityCluster ==
    DedupOver =>
        /\ \A k \in 1..Len(dd_result.clusters) :
              dd_result.clusters[k].method = "similarity" =>
                 \A m \in 1..Len(dd_result.clusters[k].member_urls) :
                    /\ CanonicalizeUrl(dd_result.clusters[k].representative_url)
                          # CanonicalizeUrl(dd_result.clusters[k].member_urls[m])
                    /\ \E e \in MergedPairs("similarity") :
                          /\ dd_input[e.rep].url = dd_result.clusters[k].representative_url
                          /\ dd_input[e.member].url = dd_result.clusters[k].member_urls[m]
        /\ \A e \in MergedPairs("similarity") :
              /\ ~SameCanonicalUrl(dd_input[e.rep], dd_input[e.member])
              /\ ~SameContentHash(dd_input[e.rep], dd_input[e.member])

C16_Witness ==
    /\ DedupOver
    /\ \E k \in 1..Len(dd_result.clusters) : dd_result.clusters[k].method = "similarity"
    /\ \E e \in dd_merged : e.method = "hash_match"

\* The input positions deduplicate removed.
RemovedItems == (1..Len(dd_input)) \ Range(dd_items)

StageOf(method) ==
    CASE method = "url_exact" -> 1
      [] method = "hash_match" -> 2
      [] method = "similarity" -> 3

\* Title similarity >= threshold as the build computes it.
TitleSimilar(a, b) ==
    IF simhash_available THEN SimhashSimilar(a, b) ELSE JaccardSimilar(a, b)

\* The two items match by the method's key.
MatchesBy(method, a, b) ==
    CASE method = "url_exact" -> SameCanonicalUrl(a, b)
      [] method = "hash_match" -> SameContentHash(a, b)
      [] method = "similarity" -> TitleSimilar(a, b)

\* Title similarity where no SimHash is computed (an empty normalized title)
\* counts as a possible match.
MayBeSimilar(a, b) ==
    IF simhash_available /\ (NormalizeTitle(a.title) = <<>> \/ NormalizeTitle(b.title) = <<>>)
      THEN TRUE
      ELSE TitleSimilar(a, b)

\* Every removed item is the member of exactly one cluster, of the method it
\* matched by, whose representative came earlier and survived that stage.
RemovedItemsClustered ==
    \A i \in RemovedItems :
        /\ Cardinality({e \in dd_merged : e.member = i}) = 1
        /\ \A e \in {x \in dd_merged : x.member = i} :
              /\ e.rep < i
              /\ MatchesBy(e.method, dd_input[e.rep], dd_input[i])
              /\ ~\E f \in dd_merged :
                     f.member = e.rep /\ StageOf(f.method) <= StageOf(e.method)
              /\ \E k \in 1..Len(dd_result.clusters) :
                    /\ dd_result.clusters[k].method = e.method
                    /\ dd_result.clusters[k].representative_url = dd_input[e.rep].url
                    /\ dd_input[i].url \in Range(dd_result.clusters[k].member_urls)

\* An item that matches no other input item is kept.
UnmatchedItemsKept ==
    \A i \in 1..Len(dd_input) :
        (\A j \in (1..Len(dd_input)) \ {i} :
            /\ ~SameCanonicalUrl(dd_input[i], dd_input[j])
            /\ ~SameContentHash(dd_input[i], dd_input[j])
            /\ ~MayBeSimilar(dd_input[i], dd_input[j]))
        => i \in Range(dd_items)

\* Two items with different urls and the same content leave the first one
\* and one hash_match cluster.
SameContentPairMerged ==
    (/\ Len(dd_input) = 2
     /\ ~SameCanonicalUrl(dd_input[1], dd_input[2])
     /\ SameContentHash(dd_input[1], dd_input[2]))
    => /\ dd_result.kept_items = <<dd_input[1]>>
       /\ dd_result.clusters =
             <<DedupClusterInfo(dd_input[1].url, <<dd_input[2].url>>, "hash_match", NoScore)>>

\* C17: every removed item is the member of exactly one cluster, whose method
\* is the stage it matched at and whose representative is an earlier item
\* that survived that stage; an item matching no other item is kept; two
\* items with different urls and the same normalized title, date and source
\* leave the first one and one hash_match cluster.
C17_RemovedItemsAreClusterMembers ==
    DedupOver => RemovedItemsClustered /\ UnmatchedItemsKept /\ SameContentPairMerged

\* C18: after deduplicate the kept items have pairwise distinct canonical
\* urls, pairwise distinct content hashes, and pairwise title similarity
\* below the threshold.
C18_KeptItemsPairwiseDistinct ==
    DedupOver =>
        \A i \in 1..Len(dd_result.kept_items), j \in 1..Len(dd_result.kept_items) :
            i < j =>
                /\ ~SameCanonicalUrl(dd_result.kept_items[i], dd_result.kept_items[j])
                /\ ~SameContentHash(dd_result.kept_items[i], dd_result.kept_items[j])
                /\ ~TitleSimilar(dd_result.kept_items[i], dd_result.kept_items[j])

C18_Witness ==
    /\ DedupOver
    /\ Len(dd_result.kept_items) = 2
    /\ \E e \in dd_merged : e.method = "url_exact"
    /\ NormalizeTitle(dd_result.kept_items[1].title) # NormalizeTitle(dd_result.kept_items[2].title)

-----------------------------------------------------------------------------
(* Claims about Deduplicator.canonicalize_url, checked under SpecCU.       *)

\* The tracking set as specified: every name starting with utm_, and the
\* listed names; names are compared without regard to letter case.
StartsWithUtm(k) ==
    k \in {"utm_source", "utm_medium", "utm_campaign", "utm_term", "utm_content", "utm_id"}

SpecifiedTracking(k) ==
    \/ StartsWithUtm(Lower(k))
    \/ Lower(k) \in {"ref", "source", "fbclid", "gclid", "msclkid", "mc_cid", "mc_eid",
                     "affiliate", "partner", "tracking", "_ga", "ncid", "sr_share"}

\* C19: canonicalize_url is idempotent and insensitive to tracking
\* parameters: canonicalize(canonicalize(u)) = canonicalize(u) =
\* canonicalize(u with tracking parameters added to its query).
C19_IdempotentAndTrackingBlind ==
    cu_pc = "done" =>
        /\ cu_out.c2 = cu_out.c1
        /\ cu_out.c3 = cu_out.c1

\* The parameters of a query that the specified tracking set leaves.
Untracked(query) ==
    LET Keep(p) == ~SpecifiedTracking(p.k)
    IN  SelectSeq(query, Keep)

\* C20: the result has lower-case scheme and host, no fragment, no trailing
\* slash, the path's letters as given, no parameter of the specified
\* tracking set, and every other parameter of the input with its value.
C20_CanonicalForm ==
    (cu_pc = "done" /\ cu_url # EmptyUrl) =>
        LET c == cu_out.c1
        IN  /\ c.scheme = Lower(cu_url.scheme)
            /\ c.netloc = Lower(cu_url.netloc)
            /\ c.fragment = ""
            /\ c.path.slashes = 0
            /\ c.path.body = cu_url.path.body
            /\ \A i \in 1..Len(c.query) : ~SpecifiedTracking(c.query[i].k)
            /\ \A p \in Range(Untracked(cu_url.query)) :
                   \E i \in 1..Len(c.query) :
                       /\ c.query[i].k = p.k
                       /\ Unquote(c.query[i].v) = Unquote(p.v)
            /\ Len(c.query) = Len(Untracked(cu_url.query))

-----------------------------------------------------------------------------
(* Claims about the normalizer, checked under SpecNZ.                      *)

Normalized == nz_pc \in {"normalized", "done"}

\* The characters a-z and 0-9 of the model.
LowerAlnum == {"a", "b", "g", "4"}

\* C21: normalize_title gives the same output for the same input, and its
\* output holds only a-z, 0-9 and single spaces, with no leading, trailing or
\* repeated white space.
C21_NormalizedTitleAlphabet ==
    Normalized =>
        LET out == nz_news.title_normalized
        IN  /\ out = NormalizeTitle(nz_raw.title)
            /\ \A i \in 1..Len(out) : out[i] \in LowerAlnum \cup {" "}
            /\ out # <<>> => out[1] # " " /\ out[Len(out)] # " "
            /\ \A i \in 1..(Len(out) - 1) : ~(out[i] = " " /\ out[i + 1] = " ")

RowCreated == nz_pc = "done"

\* The hash of the three components, as compute_content_hash joins them.
HashOfComponents(title_normalized, day, source) == <<title_normalized, day, source>>

\* The three components of a NewsItem are those of the row.
SameComponents(x) ==
    /\ x.title_normalized = nz_row.title_normalized
    /\ DateStr(x.published_at) = DateStr(nz_row.published_at)
    /\ x.source = nz_row.source

\* C22: the content_hash of every NewsItem is the hash of its own
\* title_normalized, the day of its own published_at and its source; so two
\* items have equal hashes exactly when the three components are equal.
C22_ContentHashOfOwnFields ==
    RowCreated =>
        /\ nz_row.content_hash =
              HashOfComponents(nz_row.title_normalized, DateStr(nz_row.published_at),
                               nz_row.source)
        /\ \A other \in {x \in NormalizerInputs : Len(x.title) <= 1} :
              LET o == NormalizeItem(other, nz_now)
              IN  (o.content_hash = nz_row.content_hash) <=> SameComponents(o)

\* The rule on a NewsItemCreate or a NewsItem row.
CredibilityByRule(x) ==
    IF x.source_type = "filing" THEN x.credibility = "high"
    ELSE IF x.source \in DOMAIN CREDIBILITY_MAP
           THEN x.credibility = CREDIBILITY_MAP[x.source]
           ELSE x.credibility = "low"

\* C23: every NewsItem the normalizer produces, and so every row persisted,
\* has credibility high when its source_type is filing, whatever its source;
\* any other item has what the table gives its source, low when the table
\* does not list the source.
C23_CredibilityRule ==
    /\ Normalized => CredibilityByRule(nz_news)
    /\ RowCreated => CredibilityByRule(nz_row)

C23_Witness ==
    /\ RowCreated
    /\ nz_row.source_type = "filing"
    /\ nz_row.source = "rss"
    /\ nz_row.credibility = "high"

-----------------------------------------------------------------------------
(* Claims about the per-ticker limit, checked under SpecLT.                *)

\* The number of kept items that carry the ticker.
KeptCarrying(t) == Cardinality({k \in 1..Len(lt_kept) : t \in Range(lt_items[lt_kept[k]])})

\* C25: with limit_per_ticker = N, for every ticker at most N of the items
\* kept for analysis carry it, whatever the order of the input and however
\* many tickers an item carries.
C25_AtMostLimitPerTicker ==
    lt_pc = "done" /\ limit_per_ticker >= 1 =>
        \A t \in Tickers : KeptCarrying(t) <= limit_per_ticker

-----------------------------------------------------------------------------
(* Claims about the collectors, checked under SpecCO.                      *)

\* C30: the list a collector's collect() returns holds no two items with the
\* same url, also when several tickers yield the same article or filing; and
\* an exception of one ticker's task leaves the items of the other tickers in
\* the list.
C30_CollectedUrlsDistinct ==
    co_pc = "done" =>
        /\ \A i \in 1..Len(co_out), j \in 1..Len(co_out) :
              i # j => co_out[i].url # co_out[j].url
        /\ \A i \in 1..Len(co_tickers) :
              co_results[i].ok =>
                 \A k \in 1..Len(co_results[i].ids) :
                    \E m \in 1..Len(co_out) :
                       co_out[m].url = ItemUrl(co_collector, co_tickers[i], co_results[i].ids[k])

-----------------------------------------------------------------------------
(* Pipeline.stats across runs.                                             *)

\* C24: in every state of every run, also when run() is called again on
\* the same Pipeline object, analyzed_success + analyzed_failed is at most
\* after_dedup and delivered is at most the number of enabled channels.
C24_CountersBounded ==
    /\ stats.analyzed_success + stats.analyzed_failed <= stats.after_dedup
    /\ stats.delivered <= Cardinality(outputs)

-----------------------------------------------------------------------------
(* Runs without an AI provider.                                            *)

\* The number of positions of items that hold u.
Occurrences(items, u) == Cardinality({i \in 1..Len(items) : items[i] = u})

\* Without a provider nothing is ever counted as analyzed, and a run that
\* met no other failure returns its digest after both deliveries were
\* tried.
C26_State ==
    ~ProviderCreated =>
        /\ stats.analyzed_success = 0
        /\ stats.analyzed_failed = 0
        /\ analysis_results = {}
        /\ (RunOver /\ exc = NoExc) =>
               /\ run_result = "digest"
               /\ Len(digest_items) = Len(normalized_items)
               /\ stats.delivered + Cardinality(channel_failures) = Cardinality(outputs)
               /\ (Row.exists => Row.status = "success")

\* The analyze stage without a provider, when the database does not fail:
\* one more NewsItem per processed item, one unanalyzed DigestItem per
\* processed item in order, and the run goes on to the summaries.
C26_Stage ==
    (pc = "analyze" /\ ~ProviderCreated /\ exc' # DbError) =>
        /\ pc' = "summaries"
        /\ \A u \in Urls :
              news_items'[u] = news_items[u] + Occurrences(normalized_items, u)
        /\ Len(digest_items') = Len(normalized_items)
        /\ \A i \in 1..Len(normalized_items) :
              /\ digest_items'[i].url = normalized_items[i]
              /\ ~digest_items'[i].analyzed

\* C26: if no AI provider can be created the run is not aborted: every
\* processed item is persisted without analysis and is in the digest with
\* no analysis, analyzed_success and analyzed_failed stay 0, and delivery
\* and finalization still take place.
C26_NoProviderRunCompletes == []C26_State /\ [][C26_Stage]_vars

\* A run without a provider that returned a digest of two unanalyzed items
\* and delivered it.
C26_Witness ==
    /\ ~ProviderCreated
    /\ RunOver /\ run_result = "digest"
    /\ Len(digest_items) = 2
    /\ \A i \in 1..Len(digest_items) :
          ~digest_items[i].analyzed /\ news_items[digest_items[i].url] >= 1
    /\ stats.delivered >= 1

-----------------------------------------------------------------------------
(* A configured provider the factory does not know.                        *)

\* settings.ai_provider names no registered constructor ("claude" stands
\* for the names config.py accepts and factory.py never registers).
UnknownProvider == ai_provider \notin RegisteredProviders \cup {"none"}

\* C27: with an unknown provider configured, a fatal configuration error
\* stops the pipeline before it begins: no collector is ever invoked,
\* nothing is persisted, and no run returns a digest.
C27_UnknownProviderFatalAtStart ==
    UnknownProvider =>
        /\ \A c \in {"finnhub", "sec"} : CollectorRequest(c) \notin requests
        /\ \A u \in Urls : news_items[u] = 0
        /\ run_result # "digest"

-----------------------------------------------------------------------------
(* Failures of one collector or one channel.                               *)

\* After _collect_news both collectors have been invoked, whichever of
\* them raised, and raw_collected counts everything that was returned.
C28_Collected ==
    pc = "process" =>
        /\ \A c \in {"finnhub", "sec"} : CollectorRequest(c) \in requests
        /\ raw_items = collector_returns.finnhub \o collector_returns.sec
        /\ stats.raw_collected =
               Len(collector_returns.finnhub) + Len(collector_returns.sec)

\* Once both delivery steps are over every enabled channel has been tried:
\* it either delivered or is among the failed channels.
C28_Delivered ==
    (pc = "finalize" \/ (RunOver /\ exc = NoExc)) =>
        /\ channel_failures \subseteq outputs
        /\ stats.delivered = Cardinality(outputs \ channel_failures)
        /\ ("notion" \in outputs => NotionRequests \subseteq requests)
        /\ (RunOver => run_result = "digest")

\* Neither the collection step nor a delivery step passes control to
\* run()'s except clause.
C28_NoRaise ==
    (pc \in {"collect", "deliver_notion", "deliver_markdown"}) =>
        /\ pc' # "except"
        /\ exc' = NoExc

\* C28: a failure of one collector or of one output channel never aborts
\* the run: the other collector is still invoked and its items are counted
\* in raw_collected, the other channel is still invoked, and run() does
\* not raise because of that failure.
C28_FailureConfined ==
    /\ [](C28_Collected /\ C28_Delivered)
    /\ [][C28_NoRaise]_vars

\* A run that returned its digest although the SEC collector raised (the
\* Finnhub item was counted) and the Notion delivery failed (the Markdown
\* delivery was made).
C28_Witness ==
    /\ RunOver /\ run_result = "digest"
    /\ collector_failures = {"sec"}
    /\ stats.raw_collected = 1
    /\ outputs = Channels
    /\ channel_failures = {"notion"}
    /\ stats.delivered = 1

-----------------------------------------------------------------------------
(* Every collector failing.                                                *)

\* Both collectors (finnhub_enabled and sec_enabled are on) raised in
\* this run's _collect_news.
AllCollectorsFailed == collector_failures = {"finnhub", "sec"}

\* C29: if every enabled collector fails in the same run, the run is
\* aborted before a digest is built: run() raises and the PipelineRun
\* ends failed; it does not complete with an empty digest.
C29_AllCollectorsFailedAborts ==
    AllCollectorsFailed =>
        /\ pc \notin {"summaries", "deliver_notion", "deliver_markdown", "finalize"}
        /\ RunOver =>
              /\ run_result = "raised"
              /\ (Row.exists => Row.status = "failed")

-----------------------------------------------------------------------------
(* Delivery logs.                                                          *)

\* The DeliveryLog rows of the current run for channel c.
LogsOf(c) == {l \in delivery_logs : l.run_id = run_id /\ l.channel = c}

\* C31: once the deliveries of a run are over, every enabled channel has
\* one DeliveryLog of that run, updated exactly once from pending to
\* success (the delivery returned) or failed (it raised); and no
\* DeliveryLog is pending once run() has finished.
C31_EveryChannelLogged ==
    /\ (pc = "finalize" \/ (RunOver /\ exc = NoExc)) =>
           \A c \in outputs :
              /\ Cardinality(LogsOf(c)) = 1
              /\ \A l \in LogsOf(c) :
                    /\ l.updates = 1
                    /\ l.status = (IF c \in channel_failures THEN "failed" ELSE "success")
    /\ RunOver => \A l \in delivery_logs : l.status # "pending"

-----------------------------------------------------------------------------
(* The required user agent.                                                *)

\* The user agent the client has been configured with: SECClient takes
\* its argument or the setting, the base class its config's.
ConfiguredUserAgent ==
    IF ua_class = "SECClient"
      THEN (IF Truthy(ua_arg) THEN ua_arg ELSE ua_setting)
      ELSE ua_config.user_agent

\* C32: when the API's policy requires a user agent, every request sent
\* carries a non-empty User-Agent header, and with none configured no
\* request is sent: each fails locally.
C32_RequiredUserAgent ==
    (ua_class # "none" /\ ua_config.user_agent_required) =>
        /\ \A i \in 1..Len(ua_sent) : ua_sent[i] # ""
        /\ ~Truthy(ConfiguredUserAgent) => ua_sent = <<>>

-----------------------------------------------------------------------------
(* The watchlist as a set of tickers.                                      *)

\* The upper-cased ticker t is in the table rows.
Present(rows, t) == \E r \in rows : r.ticker = t

\* C33: after any sequence of requests the watchlist is a set keyed by
\* upper-cased ticker.  Create answers 201 exactly when the ticker was
\* absent, and 400 with the table unchanged when it was present; get,
\* update and delete answer 404 exactly when it was absent; delete of a
\* present ticker answers 204 and leaves it absent.
C33_WatchlistIsASet ==
    /\ \A r1 \in wl_rows, r2 \in wl_rows : r1.ticker = r2.ticker => r1 = r2
    /\ \A r \in wl_rows : r.ticker = Upper(r.ticker)
    /\ wl_req # NoRequest =>
          LET t == Upper(wl_req.ticker)
              was == Present(wl_before, t)
          IN  /\ wl_req.method = "POST" =>
                    /\ (wl_resp = 201) <=> ~was
                    /\ was => (wl_resp = 400 /\ wl_rows = wl_before)
                    /\ Present(wl_rows, t)
              /\ wl_req.method \in {"GET", "PUT", "DELETE"} =>
                    ((wl_resp = 404) <=> ~was)
              /\ wl_req.method \in {"GET", "PUT"} =>
                    (Present(wl_rows, t) <=> was)
              /\ wl_req.method = "DELETE" =>
                    /\ was => wl_resp = 204
                    /\ ~Present(wl_rows, t)

\* A lower-case delete of a ticker created in upper case answered 204
\* and removed it, with the other ticker still on the list.
C33_Witness ==
    /\ wl_req.method = "DELETE" /\ wl_req.ticker = "nvda"
    /\ wl_resp = 204
    /\ Present(wl_before, "NVDA") /\ ~Present(wl_rows, "NVDA")
    /\ Present(wl_rows, "AMD")

-----------------------------------------------------------------------------
(* The stored counters during a run.                                       *)

\* The stages of a run that follow the collection, and those that follow
\* the processing.
AfterCollect == {"process", "analyze", "summaries", "deliver_notion",
                 "deliver_markdown", "finalize"}
AfterProcess == AfterCollect \ {"process"}

\* C34: the PipelineRun row shows the run's progress while the run is
\* still executing: once collection has finished its raw_collected is the
\* number of collected items, and once processing has finished its
\* after_dedup is the number of items kept.
C34_StoredCountersFollowStages ==
    /\ (pc \in AfterCollect /\ Row.exists) =>
           Row.stats.raw_collected = stats.raw_collected
    /\ (pc \in AfterProcess /\ Row.exists) =>
           Row.stats.after_dedup = stats.after_dedup

-----------------------------------------------------------------------------
(* The order of the stages.                                                *)

\* The stages of run() in the order of its statements.
StageOrder == <<"load_watchlist", "collect", "process", "analyze", "summaries",
                "deliver_notion", "deliver_markdown", "finalize">>

\* The position of a stage in StageOrder.
StageRank(stage) == CHOOSE k \in 1..Len(StageOrder) : StageOrder[k] = stage

\* A stage of the run proper, as opposed to idle, the except clause and done.
InStage(p) == p \in Range(StageOrder)

\* What a stage produces exists only from that stage on.
C35_Stages ==
    /\ (InStage(pc) /\ StageRank(pc) <= StageRank("collect")) =>
           /\ requests = {}
           /\ stats.raw_collected = 0
    /\ (InStage(pc) /\ StageRank(pc) <= StageRank("process")) =>
           /\ normalized_items = <<>>
           /\ stats.after_dedup = 0
    /\ (InStage(pc) /\ StageRank(pc) < StageRank("analyze")) =>
           /\ digest_items = <<>>
           /\ \A r \in requests : r.api \in {"finnhub", "sec"}
    /\ (InStage(pc) /\ StageRank(pc) <= StageRank("analyze")) =>
           /\ Len(digest_items) < idx
           /\ summary_failures = {}
    /\ (InStage(pc) /\ StageRank(pc) <= StageRank("summaries")) =>
           /\ \A r \in requests : r.api # "notion"
           /\ stats.delivered = 0
           /\ channel_failures = {}
    /\ (InStage(pc) /\ StageRank(pc) > StageRank("analyze")) =>
           idx = Len(normalized_items) + 1
    /\ (InStage(pc) /\ Row.exists) => Row.status = "running"
    /\ (run_id \in RunIds /\ Row.exists /\ Row.status = "success") =>
           stats.delivered + Cardinality(channel_failures) = Cardinality(outputs)

\* A step moves to the next stage in order or leaves the run through the
\* except clause, and a pass of the analyze loop takes the item at idx
\* and puts it, if anything, at the end of the digest.
C35_Step ==
    /\ (InStage(pc) /\ InStage(pc') /\ pc' # pc) =>
           StageRank(pc') = StageRank(pc) + 1
    /\ (InStage(pc) /\ ~InStage(pc')) =>
           \/ pc' = "except"
           \/ pc = "finalize" /\ pc' = "done"
    /\ (pc = "idle" /\ pc' # pc) => pc' = "load_watchlist"
    /\ (pc = "analyze" /\ pc' = "analyze" /\ ProviderCreated) =>
           /\ idx' = idx + 1
           /\ idx <= Len(normalized_items)
           /\ \/ digest_items' = digest_items
              \/ /\ Len(digest_items') = Len(digest_items) + 1
                 /\ SubSeq(digest_items', 1, Len(digest_items)) = digest_items
                 /\ digest_items'[Len(digest_items')].url = normalized_items[idx]

\* C35: within one run the stages occur strictly in the order watchlist
\* load, collect, process, analyze, summaries, delivery, finalize; items
\* are analyzed one at a time in their order after dedup; the terminal
\* status is written only after every delivery attempt.
C35_StagesInOrder == []C35_Stages /\ [][C35_Step]_vars

\* A finished run that analyzed two items in order and delivered.
C35_Witness ==
    /\ RunOver /\ run_result = "digest"
    /\ ProviderCreated
    /\ Len(normalized_items) = 2
    /\ Len(digest_items) = 2
    /\ \A i \in 1..2 : digest_items[i].url = normalized_items[i]
    /\ stats.delivered >= 1

-----------------------------------------------------------------------------
(* The thesis an item is analyzed with.                                    *)

\* The positions of th_tickers whose ticker has a non-empty thesis.
WithThesis == {i \in 1..Len(th_tickers) : th_watchlist[th_tickers[i]] = "thesis"}

\* C36: an item is analyzed with the first non-empty thesis found when
\* going through its tickers in order, and with the empty thesis only
\* when none of its tickers has a non-empty one (a null thesis counts as
\* empty).
C36_FirstNonEmptyThesis ==
    (th_pc = "done" /\ th_tickers # <<>>) =>
        IF WithThesis = {}
          THEN th_thesis \in {"", "None"}
          ELSE LET first == CHOOSE i \in WithThesis : \A j \in WithThesis : i <= j
               IN  th_thesis = ThesisText(th_tickers[first])

-----------------------------------------------------------------------------
(* The unit of work of the analyze stage.                                  *)

\* Outside the analyze stage the session holds nothing, so nothing
\* flushed by a stage can reach the store later.
C37_NoOpenSession ==
    pc # "analyze" => (sess_news = [u \in Urls |-> 0] /\ sess_analysis = {})

\* While the stage runs, and when it raises, the store keeps the rows it
\* had when the stage started; the rows of the stage reach the store
\* together, in the step that ends the stage.
C37_Step ==
    /\ (pc = "analyze" /\ pc' \in {"analyze", "except"}) =>
           /\ news_items' = news_items
           /\ analysis_results' = analysis_results
    /\ (pc = "analyze" /\ pc' = "summaries" /\ ProviderCreated) =>
           /\ \A u \in Urls : news_items'[u] = news_items[u] + sess_news[u]
           /\ analysis_results' = analysis_results \cup sess_analysis

\* C37: the writes of the analyze-and-persist stage are committed together
\* after the loop; if the stage raises before the loop completes, none of
\* its rows is in the store afterwards and the store is as it was before
\* the stage started.
C37_StageCommitsAtomically == []C37_NoOpenSession /\ [][C37_Step]_vars

\* The stage raised after it had flushed a NewsItem and an AnalysisResult,
\* and the store holds neither.
C37_Witness ==
    /\ pc = "except" /\ exc = DbError
    /\ idx = 2
    /\ stats.analyzed_success = 1
    /\ \A u \in Urls : news_items[u] = 0
    /\ analysis_results = {}

-----------------------------------------------------------------------------
(* Overlapping runs and the same canonical_url.                            *)

\* C38: two runs executing at the same time over overlapping items never
\* leave the store with two NewsItems for one canonical_url.
C38_NoDuplicateAcrossRuns == \A u \in Urls : cc_store[u] <= 1

(***************************************************************************)
(* batch_analyze, one turn of its loop over news_list: the tuple appended  *)
(* to results for the item whose analyze() ended with `result`.  Only      *)
(* AIAnalysisError is caught; any other exception leaves batch_analyze and *)
(* no further item is analysed.                                            *)
(***************************************************************************)
BatchAnalyzeItem(result) ==
    CASE result.outcome # "raised" ->
            [continues |-> TRUE, analyzed |-> TRUE,
             tokens |-> result.tokens, cost |-> result.cost]
      [] result.error = "AIAnalysisError" ->
            [continues |-> TRUE, analyzed |-> FALSE, tokens |-> 0, cost |-> 0]
      [] OTHER ->
            [continues |-> FALSE, analyzed |-> FALSE, tokens |-> 0, cost |-> 0]

Unanalyzed == [continues |-> TRUE, analyzed |-> FALSE, tokens |-> 0, cost |-> 0]

(* C39: every failure that leaves analyze() is an AIAnalysisError, a       *)
(* failure of the repair call included, so batch_analyze records the item  *)
(* as unanalyzed (None, 0 tokens, 0 cost) and goes on to the next item.    *)
C39_FailureRecordedAsUnanalyzed ==
    (AnalyzeOver /\ an_result.outcome = "raised")
        => /\ an_result.error = "AIAnalysisError"
           /\ BatchAnalyzeItem(an_result) = Unanalyzed

\* a is published before b; both are hours of the same day.
PublishedBefore(a, b) ==
    /\ a.published_at # NoDate
    /\ b.published_at # NoDate
    /\ a.published_at.day = b.published_at.day
    /\ a.published_at.hour < b.published_at.hour

(* C40: of the items stage 3 finds similar, the one published earlier is   *)
(* kept: no item removed by the similarity stage was published before the  *)
(* item kept in its place.                                                 *)
C40_EarlierPublishedKept ==
    DedupOver =>
        \A e \in MergedPairs("similarity") :
            ~PublishedBefore(dd_input[e.member], dd_input[e.rep])

=============================================================================
